---- MODULE Spec2Model ----
(***************************************************************************)
(* Annotation overlay and interaction engine of the PDF viewer layer:      *)
(* the process-wide provider registry and render dispatch of               *)
(* usePdfAnnotations, and the hover / click / zoom / page handlers of      *)
(* usePdf together with the PDFViewer component that mounts the canvases.  *)
(***************************************************************************)
EXTENDS Integers, Sequences, FiniteSets, TLC

VARIABLES
    annotationProviders,        \* globalAnnotationProviders: Map in insertion order
    activeProviders,            \* globalActiveProviders: Set of provider ids
    disableFallbackRendering,   \* debug flag
    declaredPriority,           \* priority the caller declared in the options of each id
    inflight,                   \* handlers suspended at `await provider.render(context)`
    lastCall,                   \* the direct drawAnnotationText call that settled last
    overlays,                   \* children of the HTML overlay container, in DOM order
    overlayCanvas,              \* what is drawn on the overlay canvas
    htmlAnnotation,             \* was the htmlAnnotation prop given to the viewer
    emitted,                    \* events the click handled last emitted to the host
    lastOp,                     \* the registry operation the host called last
    probe,                      \* the geometry function applied last: inputs and result
    pdfDocument,                \* usePdf: pdfDocument (true once a document loaded)
    isLoading,                  \* usePdf: isLoading
    error,                      \* usePdf: error is set
    currentPage,                \* usePdf: currentPage (0-based)
    totalPages,                 \* usePdf: totalPages
    zoom,                       \* usePdf: zoom, an exact fraction <<num, den>>
    pageAnnotations,            \* usePdfAnnotations: pageAnnotations
    annotationPaths,            \* usePdfAnnotations: annotationPaths, the hit-test index
    canvasTransform,            \* style.transform scale of the page canvas
    previousHoverState,         \* usePdf: previousHoverState
    previousHoveredAnnotation,  \* usePdf: previousHoveredAnnotation
    displays,                   \* displayPage calls in flight
    loads,                      \* loadPdf calls in flight
    loadCount,                  \* loadPdf calls made so far
    lastEventHit                \* annotation hit by the pointer-move that came last

(***************************************************************************)
(* Bounds of the model.                                                    *)
(***************************************************************************)
MaxInFlight == 2     \* pointer handlers suspended at the same time
MaxCalls == 1        \* direct drawAnnotationText calls suspended at the same time
MaxDisplays == 2     \* displayPage calls in flight at the same time
MaxLoads == 1        \* loadPdf calls made by the host
MaxReloads == 2      \* loadPdf calls of a host that changes the file
MaxOverlays == 2     \* children of the HTML overlay container
MaxZoomSteps == 1    \* zoom steps away from 100 %
MaxZoomCalls == 8    \* zoomIn / zoomOut calls a host makes on an unloaded viewer
Precision == 4       \* significand bits of the binary floating point numbers

(***************************************************************************)
(* Annotations and provider options supplied by the host.                  *)
(***************************************************************************)
NoAnnotation == [page |-> "", line |-> 0, content |-> "", rect |-> << >>]

Important == [page |-> "1", line |-> 1, content |-> "IMPORTANT NOTICE",
              rect |-> <<0, 0, 2, 0, 2, 2, 0, 2>>]
Foo == [page |-> "1", line |-> 2, content |-> "foo",
        rect |-> <<3, 0, 5, 0, 5, 2, 3, 2>>]
Page2 == [page |-> "2", line |-> 1, content |-> "foo",
          rect |-> <<0, 0, 2, 0, 2, 2, 0, 2>>]
Blank == [page |-> "1", line |-> 3, content |-> " ",
          rect |-> <<0, 3, 2, 3, 2, 5, 0, 5>>]
TwoPoints == [page |-> "1", line |-> 4, content |-> "foo",
              rect |-> <<0, 0, 2, 2>>]
Flat == [page |-> "1", line |-> 5, content |-> "foo",
         rect |-> <<0, 0, 1, 0, 2, 0>>]

\* annotations handed to drawAnnotationText by a direct caller
CallAnnotations == {Important, Foo, Blank, TwoPoints, Flat}

CustomIds == {"a", "b"}
ProviderIds == CustomIds \cup {"default"}
CanHandleKinds == {"always", "important"}
RenderKinds == {"sync", "throws", "async"}
Priorities == {5, 10}

\* options objects passed to registerAnnotationProvider; id "" means "not given"
ProviderOptions ==
    [id : {"a"}, name : {"A"}, canHandle : CanHandleKinds,
     render : RenderKinds, priority : Priorities]
    \cup [id : {"b", ""}, name : {"B"}, canHandle : CanHandleKinds,
          render : RenderKinds, priority : Priorities]

(***************************************************************************)
(* Map helpers: a JS Map keeps insertion order; set() on an existing key   *)
(* replaces the value in place.                                            *)
(***************************************************************************)
MapHas(m, id) == \E i \in 1..Len(m) : m[i].id = id

MapGet(m, id) == m[CHOOSE i \in 1..Len(m) : m[i].id = id]

MapSet(m, p) ==
    IF MapHas(m, p.id)
    THEN [i \in 1..Len(m) |-> IF m[i].id = p.id THEN p ELSE m[i]]
    ELSE Append(m, p)

MapDelete(m, id) == SelectSeq(m, LAMBDA p : p.id # id)

MapKeys(m) == {m[i].id : i \in 1..Len(m)}

SetMin(S) == CHOOSE x \in S : \A y \in S : x <= y

SetMax(S) == CHOOSE x \in S : \A y \in S : x >= y

(***************************************************************************)
(* Providers.                                                              *)
(***************************************************************************)
createDefaultProvider == [id |-> "default", canHandle |-> "always", render |-> "builtin"]

defaultProvider == createDefaultProvider

\* provider.canHandle(annotation)
canHandle(provider, annotation) ==
    CASE provider.canHandle = "always" -> TRUE
      [] provider.canHandle = "important" -> annotation.content = "IMPORTANT NOTICE"
      [] OTHER -> FALSE

\* options.id || options.name.toLowerCase().replace(/[^a-z0-9]/g, '-')
generatedId(name) ==
    CASE name = "A" -> "a"
      [] name = "B" -> "b"
      [] OTHER -> "default"

getAnnotationProvider(id) ==
    IF MapHas(annotationProviders, id) THEN MapGet(annotationProviders, id) ELSE [id |-> ""]

getAllProviders == annotationProviders

\* resolution that does not set the registered `default` entry aside
findProviderForAnnotation_withDefault(annotation) ==
    LET selected == SelectSeq(getAllProviders,
                        LAMBDA p : p.id \in activeProviders /\ canHandle(p, annotation))
    IN  IF selected # << >> THEN Head(selected) ELSE defaultProvider

findProviderForAnnotation(annotation) ==
    LET providers == getAllProviders
        customProviders == SelectSeq(providers, LAMBDA p : p.id # "default")
        selected == SelectSeq(customProviders,
                        LAMBDA p : p.id \in activeProviders /\ canHandle(p, annotation))
    IN  IF selected # << >> THEN Head(selected) ELSE defaultProvider

(***************************************************************************)
(* Geometry of drawAnnotationText.                                         *)
(***************************************************************************)
convertCoordinates(rect, effectiveDpi) ==
    [i \in 1..(Len(rect) \div 2) |->
        <<rect[2 * i - 1] * effectiveDpi, rect[2 * i] * effectiveDpi>>]

boundingRect(points) ==
    LET xs == {points[i][1] : i \in 1..Len(points)}
        ys == {points[i][2] : i \in 1..Len(points)}
    IN  [minX |-> SetMin(xs), maxX |-> SetMax(xs), minY |-> SetMin(ys), maxY |-> SetMax(ys),
         width |-> SetMax(xs) - SetMin(xs), height |-> SetMax(ys) - SetMin(ys)]

\* `${annotation.page}-${annotation.line}`
annotationKey(annotation) == <<annotation.page, annotation.line>>

trim(content) == IF content = " " THEN "" ELSE content

(***************************************************************************)
(* drawAnnotationText: one record per call.                                *)
(*   renders  the provider render functions invoked, in order, each with   *)
(*            the context (annotation) it was given                        *)
(*   drawn    what the renders drew on the 2d context                      *)
(***************************************************************************)
NoCall ==
    [status |-> "none", annotation |-> NoAnnotation, provider |-> "", renders |-> << >>,
     threw |-> FALSE, fallbackDisabled |-> FALSE, fallbackThrew |-> FALSE,
     escaped |-> FALSE, drawn |-> {}]

renderEntry(provider, annotation) == [provider |-> provider.id, annotation |-> annotation]

textMark(providerId, annotation) ==
    [kind |-> "text", by |-> providerId, key |-> annotationKey(annotation)]

\* an instance of usePdfAnnotations: were canvasRef / htmlOverlayContainer and
\* the htmlAnnotation renderer handed to it
StandaloneInstance == [canvas |-> FALSE, htmlAnnotation |-> FALSE]

createHtmlOverlay(container, annotation, inst) ==
    IF ~inst.canvas
    THEN container
    ELSE Append(container, [className |-> "pdf-annotation-overlay",
                            dataAnnotationId |-> << >>,
                            boundTo |-> annotationKey(annotation)])

\* the catch block without the inner try / catch around the fallback render
catchRenderError_noInnerTry(call, defaultThrows) ==
    IF call.provider # "default" /\ ~disableFallbackRendering
    THEN [call EXCEPT !.status = "settled",
                      !.threw = TRUE,
                      !.renders = Append(@, renderEntry(defaultProvider, call.annotation)),
                      !.fallbackThrew = defaultThrows,
                      !.escaped = defaultThrows,
                      !.drawn = IF defaultThrows THEN @
                                ELSE @ \cup {textMark("default", call.annotation)}]
    ELSE [call EXCEPT !.status = "settled",
                      !.threw = TRUE,
                      !.fallbackDisabled = disableFallbackRendering]

\* the catch block calling the fallback render again when the fallback failed
catchRenderError_retriesFallback(call, defaultThrows) ==
    IF call.provider # "default" /\ ~disableFallbackRendering
    THEN [call EXCEPT !.status = "settled",
                      !.threw = TRUE,
                      !.renders = IF defaultThrows
                                  THEN @ \o <<renderEntry(defaultProvider, call.annotation),
                                              renderEntry(defaultProvider, call.annotation)>>
                                  ELSE Append(@, renderEntry(defaultProvider, call.annotation)),
                      !.fallbackThrew = defaultThrows,
                      !.escaped = FALSE,
                      !.drawn = IF defaultThrows THEN @
                                ELSE @ \cup {textMark("default", call.annotation)}]
    ELSE [call EXCEPT !.status = "settled",
                      !.threw = TRUE,
                      !.fallbackDisabled = disableFallbackRendering]

\* the catch block falling back whatever the debug flag says
catchRenderError_ignoresFlag(call, defaultThrows) ==
    IF call.provider # "default"
    THEN [call EXCEPT !.status = "settled",
                      !.threw = TRUE,
                      !.renders = Append(@, renderEntry(defaultProvider, call.annotation)),
                      !.fallbackThrew = defaultThrows,
                      !.escaped = FALSE,
                      !.drawn = IF defaultThrows THEN @
                                ELSE @ \cup {textMark("default", call.annotation)}]
    ELSE [call EXCEPT !.status = "settled",
                      !.threw = TRUE,
                      !.fallbackDisabled = disableFallbackRendering]

\* the catch block around `await provider.render(context)`
catchRenderError(call, defaultThrows) ==
    IF call.provider # "default" /\ ~disableFallbackRendering
    THEN [call EXCEPT !.status = "settled",
                      !.threw = TRUE,
                      !.renders = Append(@, renderEntry(defaultProvider, call.annotation)),
                      !.fallbackThrew = defaultThrows,
                      !.escaped = FALSE,
                      !.drawn = IF defaultThrows THEN @
                                ELSE @ \cup {textMark("default", call.annotation)}]
    ELSE [call EXCEPT !.status = "settled",
                      !.threw = TRUE,
                      !.fallbackDisabled = disableFallbackRendering]

\* `await provider.render(context)` returned normally
renderReturned(call) ==
    [call EXCEPT !.status = "settled",
                 !.drawn = @ \cup {textMark(call.provider, call.annotation)}]

\* provider resolution and the synchronous part of `await provider.render(context)`
renderWithProvider(call, container, inst, defaultThrows) ==
    LET provider == findProviderForAnnotation(call.annotation)
        c0 == [call EXCEPT !.provider = provider.id,
                           !.renders = <<renderEntry(provider, call.annotation)>>]
    IN  CASE provider.render = "async" ->
                [call |-> [c0 EXCEPT !.status = "suspended"], overlays |-> container]
          [] provider.render = "sync" ->
                [call |-> renderReturned(c0), overlays |-> container]
          [] provider.render = "overlay" ->
                [call |-> [c0 EXCEPT !.status = "settled"],
                 overlays |-> createHtmlOverlay(container, call.annotation, inst)]
          [] provider.render = "throws" ->
                [call |-> catchRenderError(c0, defaultThrows), overlays |-> container]
          [] OTHER ->   \* the built-in default renderer
                [call |-> IF defaultThrows THEN catchRenderError(c0, defaultThrows)
                          ELSE renderReturned(c0),
                 overlays |-> container]

simpleOverlay(annotation) ==
    [className |-> "pdf-simple-html-overlay",
     dataAnnotationId |-> annotationKey(annotation),
     boundTo |-> annotationKey(annotation)]

\* drawAnnotationText without the check for an element that exists already
drawAnnotationText_noExistingCheck(annotation, effectiveDpi, container, inst, htmlOutcome, defaultThrows) ==
    LET points == convertCoordinates(annotation.rect, effectiveDpi)
        call == [NoCall EXCEPT !.annotation = annotation]
        skip(why) == [call |-> [call EXCEPT !.status = why], overlays |-> container]
    IN  IF annotation.content = "" \/ trim(annotation.content) = ""
        THEN skip("noContent")
        ELSE IF Len(points) < 3
        THEN skip("invalidPoints")
        ELSE IF boundingRect(points).width <= 0 \/ boundingRect(points).height <= 0
        THEN skip("invalidDimensions")
        ELSE IF inst.htmlAnnotation /\ inst.canvas /\ htmlOutcome = "ok"
        THEN [call |-> [call EXCEPT !.status = "overlayCreated"],
              overlays |-> Append(container, simpleOverlay(annotation))]
        ELSE renderWithProvider(call, container, inst, defaultThrows)

drawAnnotationText(annotation, effectiveDpi, container, inst, htmlOutcome, defaultThrows) ==
    LET points == convertCoordinates(annotation.rect, effectiveDpi)
        call == [NoCall EXCEPT !.annotation = annotation]
        skip(why) == [call |-> [call EXCEPT !.status = why], overlays |-> container]
    IN  IF annotation.content = "" \/ trim(annotation.content) = ""
        THEN skip("noContent")
        ELSE IF Len(points) < 3
        THEN skip("invalidPoints")
        ELSE IF boundingRect(points).width <= 0 \/ boundingRect(points).height <= 0
        THEN skip("invalidDimensions")
        ELSE IF inst.htmlAnnotation /\ inst.canvas
                /\ \E i \in 1..Len(container) :
                       container[i].dataAnnotationId = annotationKey(annotation)
        THEN skip("overlayExists")
        ELSE IF inst.htmlAnnotation /\ inst.canvas /\ htmlOutcome = "ok"
        THEN [call |-> [call EXCEPT !.status = "overlayCreated"],
              overlays |-> Append(container, simpleOverlay(annotation))]
        ELSE renderWithProvider(call, container, inst, defaultThrows)

(***************************************************************************)
(* State tuples.                                                           *)
(***************************************************************************)
registryVars == <<annotationProviders, activeProviders, disableFallbackRendering,
                  declaredPriority>>

callVars == <<inflight, lastCall>>

domVars == <<overlays, overlayCanvas>>

pdfVars == <<pdfDocument, isLoading, error, currentPage, totalPages, zoom, loads, loadCount>>

indexVars == <<pageAnnotations, annotationPaths, canvasTransform, displays>>

hoverVars == <<previousHoverState, previousHoveredAnnotation, lastEventHit>>

\* the viewer's props and the events it emitted to its host
hostVars == <<htmlAnnotation, emitted, lastOp, probe>>

viewerVars == <<hostVars, pdfVars, indexVars, hoverVars>>

vars == <<registryVars, callVars, domVars, viewerVars>>

EffectiveDpi == 96

RemoveAt(seq, i) == [j \in 1..(Len(seq) - 1) |-> IF j < i THEN seq[j] ELSE seq[j + 1]]

(***************************************************************************)
(* Provider registry operations.                                           *)
(***************************************************************************)
registerAnnotationProvider(options) ==
    LET id == IF options.id # "" THEN options.id ELSE generatedId(options.name)
        provider == [id |-> id, canHandle |-> options.canHandle, render |-> options.render]
    IN  /\ annotationProviders' = MapSet(annotationProviders, provider)
        /\ activeProviders' = activeProviders \cup {id}

RegisterAnnotationProvider(options) ==
    /\ registerAnnotationProvider(options)
    /\ declaredPriority' =
          [declaredPriority EXCEPT
              ![IF options.id # "" THEN options.id ELSE generatedId(options.name)] =
                  options.priority]
    /\ UNCHANGED <<disableFallbackRendering, callVars, domVars, viewerVars>>

\* unregister without the check for the reserved id
unregisterAnnotationProvider_noGuard(id) ==
    annotationProviders' = MapDelete(annotationProviders, id)

\* unregister that empties the registry of custom providers when the id is unknown
unregisterAnnotationProvider_cleansOnMiss(id) ==
    IF id = "default"
    THEN annotationProviders' = annotationProviders
    ELSE IF MapHas(annotationProviders, id)
    THEN annotationProviders' = MapDelete(annotationProviders, id)
    ELSE annotationProviders' = SelectSeq(annotationProviders, LAMBDA p : p.id = "default")

unregisterAnnotationProvider(id) ==
    IF id = "default"
    THEN annotationProviders' = annotationProviders
    ELSE annotationProviders' = MapDelete(annotationProviders, id)

UnregisterAnnotationProvider(id) ==
    /\ unregisterAnnotationProvider(id)
    /\ UNCHANGED <<activeProviders, disableFallbackRendering, declaredPriority,
                   callVars, domVars, viewerVars>>

toggleProvider(providerId) ==
    IF providerId = "default"
    THEN UNCHANGED <<annotationProviders, activeProviders>>
    ELSE IF providerId \in activeProviders
    THEN /\ unregisterAnnotationProvider(providerId)
         /\ activeProviders' = activeProviders \ {providerId}
    ELSE IF MapHas(annotationProviders, providerId)
    THEN registerAnnotationProvider(
             [id |-> providerId, name |-> "",
              canHandle |-> MapGet(annotationProviders, providerId).canHandle,
              render |-> MapGet(annotationProviders, providerId).render])
    ELSE UNCHANGED <<annotationProviders, activeProviders>>

ToggleProvider(providerId) ==
    /\ toggleProvider(providerId)
    /\ UNCHANGED <<disableFallbackRendering, declaredPriority, callVars, domVars, viewerVars>>

\* cleanup without the final clear() and add('default') of the active set
cleanupProviders_keepsActive ==
    /\ annotationProviders' = SelectSeq(annotationProviders, LAMBDA p : p.id = "default")
    /\ activeProviders' =
          activeProviders \ (MapKeys(annotationProviders) \ {"default"})

cleanupProviders ==
    /\ annotationProviders' = SelectSeq(annotationProviders, LAMBDA p : p.id = "default")
    /\ activeProviders' = {"default"}

CleanupProviders ==
    /\ cleanupProviders
    /\ UNCHANGED <<disableFallbackRendering, declaredPriority, callVars, domVars, viewerVars>>

\* disableFallbackRendering.value = flag
SetDisableFallbackRendering(flag) ==
    /\ disableFallbackRendering' = flag
    /\ UNCHANGED <<annotationProviders, activeProviders, declaredPriority, callVars, domVars, viewerVars>>

(***************************************************************************)
(* drawAnnotationText called directly on an instance created without       *)
(* canvas refs, as the provider test pages create it.                      *)
(***************************************************************************)
DrawAnnotationText(annotation, defaultThrows) ==
    LET r == drawAnnotationText(annotation, EffectiveDpi, overlays, StandaloneInstance,
                                "ok", defaultThrows)
    IN  /\ IF r.call.status = "suspended"
           THEN /\ Len(inflight) < MaxCalls
                /\ inflight' = Append(inflight, [kind |-> "draw", call |-> r.call,
                                                   detached |-> FALSE])
                /\ UNCHANGED lastCall
           ELSE /\ lastCall' = r.call
                /\ UNCHANGED inflight
        /\ overlays' = r.overlays
        /\ UNCHANGED <<registryVars, overlayCanvas, viewerVars>>

\* the promise returned by the provider's render settles
DrawTextSettles(i, rejected, defaultThrows) ==
    /\ i \in 1..Len(inflight)
    /\ inflight[i].kind = "draw"
    /\ lastCall' = IF rejected THEN catchRenderError(inflight[i].call, defaultThrows)
                   ELSE renderReturned(inflight[i].call)
    /\ inflight' = RemoveAt(inflight, i)
    /\ UNCHANGED <<registryVars, domVars, viewerVars>>

(***************************************************************************)
(* The viewer: PDFViewer mounts the page canvas, the overlay canvas and    *)
(* the HTML overlay container only in its v-else-if="pdfDocument" branch,  *)
(* after v-if="isLoading" and v-else-if="error".                           *)
(***************************************************************************)
Mounted(doc, loading, err) == doc /\ ~loading /\ ~err

mounted == Mounted(pdfDocument, isLoading, error)

\* the usePdfAnnotations instance usePdf creates with the viewer's refs
ViewerInstance == [canvas |-> mounted, htmlAnnotation |-> htmlAnnotation]

\* annotations of the document's overlay file, as loadAnnotations reads them
DocAnnotations == <<Important, Foo, Page2>>

NumPages == 2

\* page numbers typed into the toolbar's number field, minus one
PageInputs == -1..NumPages

\* pointer positions in canvas pixels: inside the first rectangle, inside the
\* second one, and between the two
Points == {<<96, 96>>, <<384, 96>>, <<240, 96>>}

HoverOptions ==
    {[id |-> "a", name |-> "A", canHandle |-> "important", render |-> "async",
      priority |-> 10],
     [id |-> "b", name |-> "B", canHandle |-> "always", render |-> "overlay",
      priority |-> 5]}

(***************************************************************************)
(* Zoom: exact fractions, multiplied by 1.2 = 6/5 and divided by it.       *)
(***************************************************************************)
RECURSIVE gcd(_, _)
gcd(a, b) == IF b = 0 THEN a ELSE gcd(b, a % b)

RECURSIVE pow(_, _)
pow(b, e) == IF e = 0 THEN 1 ELSE b * pow(b, e - 1)

frac(n, d) == <<n \div gcd(n, d), d \div gcd(n, d)>>

fracLess(p, q) == p[1] * q[2] < q[1] * p[2]

fracMin(p, q) == IF fracLess(q, p) THEN q ELSE p

fracMax(p, q) == IF fracLess(p, q) THEN q ELSE p

One == <<1, 1>>

NoTransform == <<0, 1>>

\* zoomIn without the cap
zoomInValue_uncapped(z) == frac(z[1] * 6, z[2] * 5)

\* Math.min(zoom.value * 1.2, 3)
zoomInValue(z) == fracMin(frac(z[1] * 6, z[2] * 5), <<3, 1>>)

\* Math.max(zoom.value / 1.2, 0.3)
zoomOutValue(z) == fracMax(frac(z[1] * 5, z[2] * 6), <<3, 10>>)

(***************************************************************************)
(* The hit-test index.  Each entry also records whether a zoom change      *)
(* happened after it was built (builtBeforeZoom).                          *)
(***************************************************************************)
getAnnotationsForPage(pageNumber) ==
    SelectSeq(pageAnnotations, LAMBDA a : a.page = ToString(pageNumber + 1))

createAnnotationPath(rect, effectiveDpi) == convertCoordinates(rect, effectiveDpi)

RECURSIVE storePaths(_, _, _)
storePaths(paths, annotations, effectiveDpi) ==
    IF annotations = << >>
    THEN paths
    ELSE storePaths(MapSet(paths, [id |-> annotationKey(Head(annotations)),
                                   path |-> createAnnotationPath(Head(annotations).rect,
                                                                 effectiveDpi),
                                   annotation |-> Head(annotations),
                                   builtBeforeZoom |-> FALSE]),
                    Tail(annotations), effectiveDpi)

drawAnnotations(pageNumber, effectiveDpi) ==
    storePaths(<< >>, getAnnotationsForPage(pageNumber), effectiveDpi)

\* annotationPaths.value.clear() left out
clearAnnotations_keepsPaths(paths) == paths

clearAnnotations(paths) == << >>

\* a zoom change happened: what is still in the index was built before it
zoomChanged(paths) == [i \in 1..Len(paths) |-> [paths[i] EXCEPT !.builtBeforeZoom = TRUE]]

isLeft(p, q, pt) == (q[1] - p[1]) * (pt[2] - p[2]) - (pt[1] - p[1]) * (q[2] - p[2])

windingTerm(p, q, pt) ==
    IF p[2] <= pt[2]
    THEN IF q[2] > pt[2] /\ isLeft(p, q, pt) > 0 THEN 1 ELSE 0
    ELSE IF q[2] <= pt[2] /\ isLeft(p, q, pt) < 0 THEN -1 ELSE 0

RECURSIVE windingNumber(_, _, _)
windingNumber(path, pt, i) ==
    IF i > Len(path)
    THEN 0
    ELSE windingTerm(path[i], path[(i % Len(path)) + 1], pt) + windingNumber(path, pt, i + 1)

\* ctx.isPointInPath(path, x, y) with the non-zero winding rule on the closed path
isPointInPath(path, pt) == Len(path) > 0 /\ windingNumber(path, pt, 1) # 0

\* a scan that keeps the last entry containing the point
hitEntry_lastWins(paths, pt) ==
    LET hits == {i \in 1..Len(paths) : isPointInPath(paths[i].path, pt)}
    IN  IF hits = {} THEN 0 ELSE SetMax(hits)

\* position in the index of the entry a hit test at pt returns, 0 for none
hitEntry(paths, pt) ==
    LET hits == {i \in 1..Len(paths) : isPointInPath(paths[i].path, pt)}
    IN  IF hits = {} THEN 0 ELSE SetMin(hits)

getAnnotationAtPoint(paths, pt) ==
    IF hitEntry(paths, pt) = 0 THEN NoAnnotation ELSE paths[hitEntry(paths, pt)].annotation

(***************************************************************************)
(* Loading a document.                                                     *)
(***************************************************************************)
display(pageNumber) == [pageNumber |-> pageNumber, pc |-> "rendering"]

\* pointer handlers suspended when the canvases are removed keep drawing on
\* the removed overlay canvas
detach(handlers) == [i \in 1..Len(handlers) |-> [handlers[i] EXCEPT !.detached = TRUE]]

\* the template is patched after a handler ran: leaving the pdfDocument branch
\* removes the canvases and the overlay container with all they hold
Patch(isMounted) ==
    IF mounted /\ ~isMounted
    THEN /\ overlays' = << >>
         /\ overlayCanvas' = {}
         /\ canvasTransform' = NoTransform
         /\ inflight' = detach(inflight)
    ELSE UNCHANGED <<overlays, overlayCanvas, canvasTransform, inflight>>

\* the host shows two documents in turn: the overlay file and the page count
\* of the document the n-th loadPdf call names
SecondOverlay == <<Foo>>

overlayOf(call) == IF call % 2 = 1 THEN DocAnnotations ELSE SecondOverlay

pagesOf(call) == IF call % 2 = 1 THEN NumPages ELSE NumPages - 1

\* loadPdf up to `await loadAnnotations(docId)`
LoadPdfUpTo(limit) ==
    /\ loadCount < limit
    /\ loadCount' = loadCount + 1
    /\ annotationPaths' = clearAnnotations(annotationPaths)
    /\ loads' = Append(loads, [pc |-> "annotations", call |-> loadCount + 1])
    /\ lastEventHit' = NoAnnotation
    /\ UNCHANGED <<registryVars, callVars, domVars, hostVars, pdfDocument, isLoading,
                   error, currentPage, totalPages, zoom, pageAnnotations, canvasTransform,
                   displays, previousHoverState, previousHoveredAnnotation>>

LoadPdf == LoadPdfUpTo(MaxLoads)

\* pageAnnotations after loadAnnotations: data.overlay, or [] when fetching or
\* parsing failed
loadAnnotations(overlay, ok) == IF ok THEN overlay ELSE << >>

\* loadAnnotations settled; loadPdf goes on to `await fetch(file)`
LoadAnnotationsDone(i, ok) ==
    /\ i \in 1..Len(loads)
    /\ loads[i].pc = "annotations"
    /\ pageAnnotations' = loadAnnotations(overlayOf(loads[i].call), ok)
    /\ isLoading' = TRUE
    /\ error' = FALSE
    /\ loads' = [loads EXCEPT ![i].pc = "document"]
    /\ Patch(FALSE)
    /\ UNCHANGED <<registryVars, lastCall, hostVars, pdfDocument, currentPage,
                   totalPages, zoom, loadCount, annotationPaths, displays, hoverVars>>

\* the rest of loadPdf: the document loaded (or failed), displayPage(0), finally
LoadDocumentDone(i, ok) ==
    /\ i \in 1..Len(loads)
    /\ loads[i].pc = "document"
    /\ loads' = RemoveAt(loads, i)
    /\ isLoading' = FALSE
    /\ IF ok
       THEN LET midMounted == Mounted(TRUE, isLoading, error)
                endMounted == Mounted(TRUE, FALSE, error)
                \* watch(canvasRef) when the canvas appears before displayPage(0)
                d0 == IF ~mounted /\ midMounted /\ currentPage = 0
                      THEN Append(displays, display(0)) ELSE displays
                \* displayPage(0) of loadPdf
                d1 == IF midMounted THEN Append(d0, display(0)) ELSE d0
                \* watch(canvasRef) when the canvas appears after finally
                d2 == IF ~midMounted /\ endMounted /\ currentPage = 0
                      THEN Append(d1, display(0)) ELSE d1
            IN  /\ Len(d2) <= MaxDisplays
                /\ pdfDocument' = TRUE
                /\ totalPages' = pagesOf(loads[i].call)
                /\ annotationPaths' = clearAnnotations(annotationPaths)
                /\ displays' = d2
                /\ Patch(endMounted)
                /\ UNCHANGED error
       ELSE /\ error' = TRUE
            /\ Patch(FALSE)
            /\ UNCHANGED <<pdfDocument, totalPages, annotationPaths, displays>>
    /\ lastEventHit' = NoAnnotation
    /\ UNCHANGED <<registryVars, lastCall, hostVars, currentPage, zoom, loadCount,
                   pageAnnotations, previousHoverState, previousHoveredAnnotation>>

(***************************************************************************)
(* displayPage.                                                            *)
(***************************************************************************)
\* displayPage up to `await renderPageAsImage(pageNumber)`
displayPage(pageNumber, paths) ==
    /\ annotationPaths' = paths
    /\ IF mounted
       THEN /\ Len(displays) < MaxDisplays
            /\ displays' = Append(displays, display(pageNumber))
       ELSE UNCHANGED displays

\* the worker answers the render requests in the order they were made
RenderPageDone ==
    /\ \E i \in 1..Len(displays) :
          /\ displays[i].pc = "rendering"
          /\ \A j \in 1..(i - 1) : displays[j].pc # "rendering"
          /\ displays' = [displays EXCEPT ![i].pc = "loading"]
    /\ UNCHANGED <<registryVars, callVars, domVars, hostVars, pdfVars, pageAnnotations,
                   annotationPaths, canvasTransform, hoverVars>>

\* img.onload: resizing the canvases clears them, the transform is set and
\* drawAnnotations rebuilds the index
ImageLoaded(i) ==
    /\ i \in 1..Len(displays)
    /\ displays[i].pc = "loading"
    /\ displays' = RemoveAt(displays, i)
    /\ IF mounted
       THEN /\ overlayCanvas' = {}
            /\ canvasTransform' = zoom
            /\ annotationPaths' = drawAnnotations(displays[i].pageNumber, EffectiveDpi)
       ELSE UNCHANGED <<overlayCanvas, canvasTransform, annotationPaths>>
    /\ lastEventHit' = NoAnnotation
    /\ UNCHANGED <<registryVars, callVars, overlays, hostVars, pdfVars, pageAnnotations,
                   previousHoverState, previousHoveredAnnotation>>

goToPage(page) ==
    IF ~pdfDocument \/ page < 0 \/ page >= totalPages
    THEN UNCHANGED <<currentPage, annotationPaths, displays>>
    ELSE /\ currentPage' = page
         /\ displayPage(page, clearAnnotations(annotationPaths))

GoToPage(page) ==
    /\ mounted
    /\ goToPage(page)
    /\ lastEventHit' = NoAnnotation
    /\ UNCHANGED <<registryVars, callVars, domVars, hostVars, pdfDocument, isLoading,
                   error, totalPages, zoom, loads, loadCount, pageAnnotations,
                   canvasTransform, previousHoverState, previousHoveredAnnotation>>

NextPage == GoToPage(currentPage + 1)

PrevPage == GoToPage(currentPage - 1)

ZoomIn ==
    /\ mounted
    /\ fracLess(zoom, <<pow(6, MaxZoomSteps), pow(5, MaxZoomSteps)>>)
    /\ zoom' = zoomInValue(zoom)
    /\ displayPage(currentPage, zoomChanged(clearAnnotations(annotationPaths)))
    /\ lastEventHit' = NoAnnotation
    /\ UNCHANGED <<registryVars, callVars, domVars, hostVars, pdfDocument, isLoading,
                   error, currentPage, totalPages, loads, loadCount, pageAnnotations,
                   canvasTransform, previousHoverState, previousHoveredAnnotation>>

ZoomOut ==
    /\ mounted
    /\ fracLess(<<pow(5, MaxZoomSteps), pow(6, MaxZoomSteps)>>, zoom)
    /\ zoom' = zoomOutValue(zoom)
    /\ displayPage(currentPage, zoomChanged(clearAnnotations(annotationPaths)))
    /\ lastEventHit' = NoAnnotation
    /\ UNCHANGED <<registryVars, callVars, domVars, hostVars, pdfDocument, isLoading,
                   error, currentPage, totalPages, loads, loadCount, pageAnnotations,
                   canvasTransform, previousHoverState, previousHoveredAnnotation>>

(***************************************************************************)
(* Pointer handlers of the page canvas.                                    *)
(***************************************************************************)
highlightMark(annotation) == [kind |-> "highlight", by |-> "", key |-> annotationKey(annotation)]

\* querySelectorAll('.pdf-simple-html-overlay').forEach(overlay => overlay.remove())
clearHtmlOverlays(container) ==
    SelectSeq(container, LAMBDA o : o.className # "pdf-simple-html-overlay")

\* handleCanvasMouseMove up to the first suspension (the whole handler when the
\* render settles without one); pt is the pointer position in canvas pixels
HandleCanvasMouseMove(pt, htmlOutcome, defaultThrows) ==
    LET currentAnnotation == getAnnotationAtPoint(annotationPaths, pt)
        isOverAnnotation == currentAnnotation # NoAnnotation
        annotationChanged == previousHoveredAnnotation # currentAnnotation
        hoverStateChanged == previousHoverState # isOverAnnotation
        cleared == IF ~isOverAnnotation \/ annotationChanged
                   THEN clearHtmlOverlays(overlays) ELSE overlays
        r == drawAnnotationText(currentAnnotation, EffectiveDpi, cleared, ViewerInstance,
                                htmlOutcome, defaultThrows)
    IN  /\ mounted
        /\ lastEventHit' = currentAnnotation
        /\ IF ~(hoverStateChanged \/ annotationChanged)
           THEN UNCHANGED <<callVars, domVars, previousHoverState, previousHoveredAnnotation>>
           ELSE IF ~isOverAnnotation
           THEN /\ overlayCanvas' = {}
                /\ overlays' = cleared
                /\ previousHoverState' = FALSE
                /\ previousHoveredAnnotation' = NoAnnotation
                /\ UNCHANGED callVars
           ELSE IF r.call.status = "suspended"
           THEN /\ Len(inflight) < MaxInFlight
                /\ inflight' = Append(inflight,
                                  [kind |-> "move", call |-> r.call, detached |-> FALSE,
                                   isOverAnnotation |-> isOverAnnotation,
                                   currentAnnotation |-> currentAnnotation,
                                   previous |-> previousHoveredAnnotation])
                /\ overlayCanvas' = {highlightMark(currentAnnotation)}
                /\ overlays' = r.overlays
                /\ UNCHANGED <<lastCall, previousHoverState, previousHoveredAnnotation>>
           ELSE /\ Len(r.overlays) <= MaxOverlays
                /\ overlayCanvas' = {highlightMark(currentAnnotation)} \cup r.call.drawn
                /\ overlays' = r.overlays
                /\ UNCHANGED lastCall
                /\ previousHoverState' = isOverAnnotation
                /\ previousHoveredAnnotation' = currentAnnotation
                /\ UNCHANGED inflight
        /\ UNCHANGED <<registryVars, hostVars, pdfVars, indexVars>>

\* the provider's promise settles and handleCanvasMouseMove runs to its end
MouseMoveResumes(i, rejected, defaultThrows) ==
    /\ i \in 1..Len(inflight)
    /\ inflight[i].kind = "move"
    /\ LET call == IF rejected THEN catchRenderError(inflight[i].call, defaultThrows)
                   ELSE renderReturned(inflight[i].call)
       IN  /\ UNCHANGED lastCall
           /\ overlayCanvas' = IF inflight[i].detached THEN overlayCanvas
                               ELSE overlayCanvas \cup call.drawn
    /\ previousHoverState' = inflight[i].isOverAnnotation
    /\ previousHoveredAnnotation' = inflight[i].currentAnnotation
    /\ inflight' = RemoveAt(inflight, i)
    /\ UNCHANGED <<registryVars, overlays, hostVars, pdfVars, indexVars, lastEventHit>>

\* outside: the pointer position of the event is outside the canvas rectangle
HandleCanvasMouseLeave(outside) ==
    /\ mounted
    /\ IF outside
       THEN /\ overlayCanvas' = {}
            /\ overlays' = clearHtmlOverlays(overlays)
            /\ previousHoverState' = FALSE
            /\ previousHoveredAnnotation' = NoAnnotation
       ELSE UNCHANGED <<domVars, previousHoverState, previousHoveredAnnotation>>
    /\ lastEventHit' = NoAnnotation
    /\ UNCHANGED <<registryVars, callVars, hostVars, pdfVars, indexVars>>

\* the events one click emits: onOverlayClick(clickedOverlay, context) if the
\* hit test found an annotation, else onCanvasClick(context)
clickEvents_canvasClickToo(clickedOverlay, context) ==
    IF clickedOverlay # NoAnnotation
    THEN <<[type |-> "overlay-click", overlay |-> clickedOverlay, context |-> context],
           [type |-> "canvas-click", overlay |-> NoAnnotation, context |-> context]>>
    ELSE <<[type |-> "canvas-click", overlay |-> NoAnnotation, context |-> context]>>

clickEvents(clickedOverlay, context) ==
    IF clickedOverlay # NoAnnotation
    THEN <<[type |-> "overlay-click", overlay |-> clickedOverlay, context |-> context]>>
    ELSE <<[type |-> "canvas-click", overlay |-> NoAnnotation, context |-> context]>>

\* a click handler that also resets the hover tracking
HandleCanvasClick_resetsHover(pt) ==
    /\ mounted
    /\ emitted' = clickEvents(getAnnotationAtPoint(annotationPaths, pt),
                              [x |-> pt[1], y |-> pt[2], pageNumber |-> currentPage])
    /\ previousHoverState' = FALSE
    /\ previousHoveredAnnotation' = NoAnnotation
    /\ UNCHANGED <<registryVars, callVars, domVars, htmlAnnotation, lastOp, probe, pdfVars,
                   indexVars, lastEventHit>>

\* pt is the click position in canvas pixels
HandleCanvasClick(pt) ==
    /\ mounted
    /\ emitted' = clickEvents(getAnnotationAtPoint(annotationPaths, pt),
                              [x |-> pt[1], y |-> pt[2], pageNumber |-> currentPage])
    /\ UNCHANGED <<registryVars, callVars, domVars, htmlAnnotation, lastOp, probe, pdfVars,
                   indexVars, hoverVars>>

(***************************************************************************)
(* The registry operations as a host page calls them, one call after the   *)
(* other, with any id and with options that may name the id `default`.     *)
(***************************************************************************)
NoOp == [op |-> "", id |-> "", annotation |-> NoAnnotation, result |-> ""]

DefaultIdOptions ==
    {[id |-> "default", name |-> "D", canHandle |-> "important", render |-> "sync",
      priority |-> 5]}

CallOptions == {o \in ProviderOptions : o.render = "sync"} \cup DefaultIdOptions

optionsId(options) == IF options.id # "" THEN options.id ELSE generatedId(options.name)

restUnchanged == UNCHANGED <<disableFallbackRendering, callVars, domVars, htmlAnnotation, probe,
                             emitted, pdfVars, indexVars, hoverVars>>

CallRegister(options) ==
    /\ registerAnnotationProvider(options)
    /\ declaredPriority' = [declaredPriority EXCEPT ![optionsId(options)] = options.priority]
    /\ lastOp' = [NoOp EXCEPT !.op = "register", !.id = optionsId(options)]
    /\ restUnchanged

CallUnregister(id) ==
    /\ unregisterAnnotationProvider(id)
    /\ lastOp' = [NoOp EXCEPT !.op = "unregister", !.id = id]
    /\ UNCHANGED <<activeProviders, declaredPriority>>
    /\ restUnchanged

\* the branch of toggleProvider the call takes
toggleBranch(providerId) ==
    IF providerId = "default" THEN "reserved"
    ELSE IF providerId \in activeProviders
    THEN IF MapHas(annotationProviders, providerId) THEN "disabled" ELSE "disabledUnregistered"
    ELSE IF MapHas(annotationProviders, providerId) THEN "enabled" ELSE "notFound"

CallToggle(id) ==
    /\ toggleProvider(id)
    /\ lastOp' = [NoOp EXCEPT !.op = "toggle", !.id = id, !.result = toggleBranch(id)]
    /\ UNCHANGED declaredPriority
    /\ restUnchanged

CallCleanup ==
    /\ cleanupProviders
    /\ lastOp' = [NoOp EXCEPT !.op = "cleanup"]
    /\ UNCHANGED declaredPriority
    /\ restUnchanged

\* a resolution that moves the provider it selected to the front of the registry
CallFind_movesToFront(annotation) ==
    /\ lastOp' = [NoOp EXCEPT !.op = "find", !.annotation = annotation,
                              !.result = findProviderForAnnotation(annotation).id]
    /\ annotationProviders' =
          <<findProviderForAnnotation(annotation)>>
             \o SelectSeq(annotationProviders,
                          LAMBDA p : p.id # findProviderForAnnotation(annotation).id)
    /\ UNCHANGED <<activeProviders, declaredPriority>>
    /\ restUnchanged

\* findProviderForAnnotation(annotation) called by the host
CallFind(annotation) ==
    /\ lastOp' = [NoOp EXCEPT !.op = "find", !.annotation = annotation,
                              !.result = findProviderForAnnotation(annotation).id]
    /\ UNCHANGED <<annotationProviders, activeProviders, declaredPriority>>
    /\ restUnchanged

ProvidersNext ==
    \/ \E options \in CallOptions : CallRegister(options)
    \/ \E id \in ProviderIds : CallUnregister(id)
    \/ \E id \in ProviderIds : CallToggle(id)
    \/ CallCleanup
    \/ \E annotation \in {Important, Foo} : CallFind(annotation)

(***************************************************************************)
(* Instances of usePdfAnnotations: the host page calls usePdfAnnotations() *)
(* itself and every viewer gets one through usePdf.  Each instance binds   *)
(* its registry and its active set to the module-level refs and creates    *)
(* its own built-in provider object.                                       *)
(***************************************************************************)
Instances == {"page", "viewer"}

\* each instance constructing a Map of its own, as the earlier revision did
instanceProviders_ownMap(inst) ==
    IF inst = "page" THEN annotationProviders ELSE <<createDefaultProvider>>

\* `const annotationProviders = globalAnnotationProviders`
instanceProviders(inst) == annotationProviders

\* `const activeProviders = globalActiveProviders`
instanceActive(inst) == activeProviders

\* `const defaultProvider = createDefaultProvider()`
instanceDefault(inst) == createDefaultProvider

\* findProviderForAnnotation of the given instance
instanceFind(inst, annotation) ==
    LET providers == instanceProviders(inst)
        customProviders == SelectSeq(providers, LAMBDA p : p.id # "default")
        selected == SelectSeq(customProviders,
                        LAMBDA p : p.id \in instanceActive(inst) /\ canHandle(p, annotation))
    IN  IF selected # << >> THEN Head(selected) ELSE instanceDefault(inst)

\* findProviderForAnnotation(annotation) called on an instance
InstanceFind(inst, annotation) ==
    /\ lastOp' = [NoOp EXCEPT !.op = "find", !.id = inst, !.annotation = annotation,
                              !.result = instanceFind(inst, annotation).id]
    /\ UNCHANGED <<annotationProviders, activeProviders, declaredPriority>>
    /\ restUnchanged

\* the viewer's cleanup(), which PDFViewer runs before it unmounts: with
\* pdfDocument null the template drops the canvases that clearOverlayCanvas
\* has just cleared
Cleanup ==
    /\ pdfDocument' = FALSE
    /\ totalPages' = 0
    /\ annotationPaths' = clearAnnotations(annotationPaths)
    /\ Patch(FALSE)
    /\ lastOp' = [NoOp EXCEPT !.op = "viewer-cleanup"]
    /\ UNCHANGED <<registryVars, lastCall, htmlAnnotation, emitted, probe, isLoading, error,
                   currentPage, zoom, loads, loadCount, pageAnnotations, displays,
                   hoverVars>>

InstancesNext ==
    \/ \E options \in CallOptions : CallRegister(options)
    \/ \E id \in ProviderIds : CallToggle(id)
    \/ CallCleanup
    \/ \E inst \in Instances, annotation \in {Important, Foo} : InstanceFind(inst, annotation)
    \/ LoadPdf
    \/ \E i \in 1..MaxLoads, ok \in BOOLEAN : LoadAnnotationsDone(i, ok)
    \/ \E i \in 1..MaxLoads, ok \in BOOLEAN : LoadDocumentDone(i, ok)
    \/ RenderPageDone
    \/ \E i \in 1..MaxDisplays : ImageLoaded(i)
    \/ Cleanup

(***************************************************************************)
(* Geometry as a host applies it: the scale handed to the worker, the      *)
(* effectiveDpi of displayPage and of the hover handler, the polygon the   *)
(* worker bakes into the page raster and the polygon stored for the hit    *)
(* test.  Scalars are exact fractions.                                     *)
(***************************************************************************)
NoProbe == [fn |-> "", calls |-> 0]

\* window.devicePixelRatio of the screens considered
DevicePixelRatios == {1, 2, 3}

fracMul(p, q) == frac(p[1] * q[1], p[2] * q[2])

fracAdd(p, q) == frac(p[1] * q[2] + q[1] * p[2], p[2] * q[2])

fracSub(p, q) == frac(p[1] * q[2] - q[1] * p[2], p[2] * q[2])

fracOf(n) == <<n, 1>>

\* (window.devicePixelRatio * 96) / 72
baseScale(devicePixelRatio) == frac(devicePixelRatio * 96, 72)

\* effectiveDpi with the zoom factor multiplied in
displayEffectiveDpi_zoomed(devicePixelRatio) ==
    fracMul(fracMul(fracMul(baseScale(devicePixelRatio), fracOf(72)), One), zoom)

\* displayPage: effectiveDpi = baseScale * PDF_POINTS_PER_INCH * SCALE_FACTOR
displayEffectiveDpi(devicePixelRatio) ==
    fracMul(fracMul(baseScale(devicePixelRatio), fracOf(72)), One)

\* handleCanvasMouseMove: the same expression, computed again
hoverEffectiveDpi(devicePixelRatio) ==
    fracMul(fracMul(baseScale(devicePixelRatio), fracOf(72)), One)

\* worker: dpi = scale * PDF_POINTS_PER_INCH * SCALE_FACTOR with SCALE_FACTOR 0.375
workerDpi(scale) == fracMul(fracMul(scale, fracOf(72)), <<3, 8>>)

\* every coordinate pair multiplied by a fraction
scaleRect(rect, f) ==
    [i \in 1..(Len(rect) \div 2) |->
        <<fracMul(fracOf(rect[2 * i - 1]), f), fracMul(fracOf(rect[2 * i]), f)>>]

\* Matrix.scale(scale, scale) applied by page.toPixmap to the page content
toPixmap(points, scale) ==
    [i \in 1..Len(points) |-> <<fracMul(points[i][1], scale), fracMul(points[i][2], scale)>>]

\* the Polygon annotation of the worker as it appears in the page raster
renderPageAsImage(rect, scale) == toPixmap(scaleRect(rect, workerDpi(scale)), scale)

\* useMuPdf.renderPage: the scale handed to the worker
renderPage(rect, devicePixelRatio) == renderPageAsImage(rect, baseScale(devicePixelRatio))

\* integer points as fractions
asFractions(points) ==
    [i \in 1..Len(points) |-> <<fracOf(points[i][1]), fracOf(points[i][2])>>]

\* displayPage on a screen with the given devicePixelRatio, at the current
\* zoom: what the worker drew for the annotation and what img.onload stores
DisplayGeometry(devicePixelRatio, annotation) ==
    /\ probe' = [fn |-> "displayPage", calls |-> probe.calls,
                 devicePixelRatio |-> devicePixelRatio, zoom |-> zoom,
                 annotation |-> annotation,
                 effectiveDpi |-> displayEffectiveDpi(devicePixelRatio),
                 hoverDpi |-> hoverEffectiveDpi(devicePixelRatio),
                 drawn |-> renderPage(annotation.rect, devicePixelRatio),
                 stored |-> asFractions(createAnnotationPath(annotation.rect,
                                displayEffectiveDpi(devicePixelRatio)[1]
                                   \div displayEffectiveDpi(devicePixelRatio)[2]))]
    /\ UNCHANGED <<registryVars, callVars, domVars, htmlAnnotation, emitted, lastOp,
                   pdfVars, indexVars, hoverVars>>

\* zoomIn() called by the host
CallZoomIn ==
    /\ probe.calls < MaxZoomCalls
    /\ zoom' = zoomInValue(zoom)
    /\ IF pdfDocument
       THEN displayPage(currentPage, zoomChanged(clearAnnotations(annotationPaths)))
       ELSE UNCHANGED <<annotationPaths, displays>>
    /\ probe' = [fn |-> "zoomIn", calls |-> probe.calls + 1]
    /\ UNCHANGED <<registryVars, callVars, domVars, htmlAnnotation, emitted, lastOp,
                   pdfDocument, isLoading, error, currentPage, totalPages, loads, loadCount,
                   pageAnnotations, canvasTransform, hoverVars>>

\* zoomOut() called by the host
CallZoomOut ==
    /\ probe.calls < MaxZoomCalls
    /\ zoom' = zoomOutValue(zoom)
    /\ IF pdfDocument
       THEN displayPage(currentPage, zoomChanged(clearAnnotations(annotationPaths)))
       ELSE UNCHANGED <<annotationPaths, displays>>
    /\ probe' = [fn |-> "zoomOut", calls |-> probe.calls + 1]
    /\ UNCHANGED <<registryVars, callVars, domVars, htmlAnnotation, emitted, lastOp,
                   pdfDocument, isLoading, error, currentPage, totalPages, loads, loadCount,
                   pageAnnotations, canvasTransform, hoverVars>>

\* annotations of the files a host loads for the geometry checks: a unit
\* square, a square containing it, and two degenerate polygons
Unit == [page |-> "1", line |-> 6, content |-> "unit",
         rect |-> <<0, 0, 1, 0, 1, 1, 0, 1>>]
Big == [page |-> "1", line |-> 7, content |-> "big",
        rect |-> <<0, 0, 3, 0, 3, 3, 0, 3>>]

\* the `overlay` arrays of those files
OverlayFiles == {<<Unit>>, <<Unit, Big>>, <<Big, Unit>>, <<Important, TwoPoints, Flat, Foo>>}

\* pointer positions of the hit tests, none of them on a polygon's outline
TestPoints == {<<48, 48>>, <<200, 200>>, <<900, 900>>}

\* loadAnnotations(docId) called by the host and settled
CallLoadAnnotations(overlay, ok) ==
    /\ pageAnnotations' = loadAnnotations(overlay, ok)
    /\ probe' = [fn |-> "loadAnnotations", calls |-> probe.calls, ok |-> ok]
    /\ UNCHANGED <<registryVars, callVars, domVars, htmlAnnotation, emitted, lastOp,
                   pdfVars, annotationPaths, canvasTransform, displays, hoverVars>>

\* drawAnnotations(ctx, pageNumber, effectiveDpi) with the effectiveDpi of displayPage
CallDrawAnnotations(pageNumber, devicePixelRatio) ==
    /\ annotationPaths' =
          drawAnnotations(pageNumber, displayEffectiveDpi(devicePixelRatio)[1]
                                         \div displayEffectiveDpi(devicePixelRatio)[2])
    /\ probe' = [fn |-> "drawAnnotations", calls |-> probe.calls,
                 pageNumber |-> pageNumber, devicePixelRatio |-> devicePixelRatio]
    /\ UNCHANGED <<registryVars, callVars, domVars, htmlAnnotation, emitted, lastOp,
                   pdfVars, pageAnnotations, canvasTransform, displays, hoverVars>>

\* getAnnotationAtPoint(x, y, ctx)
CallGetAnnotationAtPoint(pt) ==
    /\ probe' = [fn |-> "getAnnotationAtPoint", calls |-> probe.calls, pt |-> pt,
                 paths |-> annotationPaths,
                 out |-> getAnnotationAtPoint(annotationPaths, pt)]
    /\ UNCHANGED <<registryVars, callVars, domVars, htmlAnnotation, emitted, lastOp,
                   pdfVars, indexVars, hoverVars>>

(***************************************************************************)
(* Overlay placement: the conversion of a rectangle in canvas pixels to    *)
(* the coordinates of the overlay container, and the boxes the two kinds   *)
(* of overlay elements are given.                                          *)
(***************************************************************************)
\* the null result of a conversion
Null == [isNull |-> TRUE, x |-> <<0, 1>>, y |-> <<0, 1>>,
         width |-> <<0, 1>>, height |-> <<0, 1>>]

\* no element was positioned
NoBox == [placed |-> FALSE, left |-> <<0, 1>>, top |-> <<0, 1>>,
          width |-> <<0, 1>>, height |-> <<0, 1>>]

\* the page canvas as the conversion sees it: is there an element, the ratio
\* of its displayed size to its pixel size, and does reading its geometry throw
CanvasElements ==
    [present : BOOLEAN, scale : {One, <<6, 5>>}, fails : BOOLEAN]

\* offsetWidth / offsetHeight of the measured content
NaturalSizes == {[width |-> 40, height |-> 16], [width |-> 120, height |-> 30]}

\* { minX, minY, width, height } of the render context
canvasRenderedRect(annotation, effectiveDpi) ==
    boundingRect(convertCoordinates(annotation.rect, effectiveDpi))

convertCanvasToOverlayCoords(canvasRect, canvasElement) ==
    IF ~canvasElement.present
    THEN Null
    ELSE IF canvasElement.fails
    THEN Null
    ELSE [isNull |-> FALSE,
          x |-> fracMul(fracOf(canvasRect.minX), canvasElement.scale),
          y |-> fracMul(fracOf(canvasRect.minY), canvasElement.scale),
          width |-> fracMul(fracOf(canvasRect.width), canvasElement.scale),
          height |-> fracMul(fracOf(canvasRect.height), canvasElement.scale)]

convertPdfCoordsToOverlayCoords(canvasElement, canvasRect) ==
    IF ~canvasElement.present
    THEN Null
    ELSE convertCanvasToOverlayCoords(canvasRect, canvasElement)

\* drawAnnotationText: the element of the htmlAnnotation renderer, centred on
\* the rectangle and of the measured size
simpleOverlayBox(screenCoords, natural) ==
    LET centerX == fracAdd(screenCoords.x, fracMul(screenCoords.width, <<1, 2>>))
        centerY == fracAdd(screenCoords.y, fracMul(screenCoords.height, <<1, 2>>))
    IN  [placed |-> TRUE,
         left |-> fracSub(centerX, frac(natural.width, 2)),
         top |-> fracSub(centerY, frac(natural.height, 2)),
         width |-> fracOf(natural.width),
         height |-> fracOf(natural.height)]

\* createHtmlOverlay: the element of a provider's template
htmlOverlayBox(screenCoords) ==
    [placed |-> TRUE, left |-> screenCoords.x, top |-> screenCoords.y,
     width |-> screenCoords.width, height |-> screenCoords.height]

\* one overlay element is to be made for the annotation: by drawAnnotationText
\* of a viewer given the htmlAnnotation renderer (kind "simple"), or by
\* createHtmlOverlay called from a provider's render (kind "provider")
PlaceOverlay ==
    LET kind == probe.kind
        annotation == probe.annotation
        canvasElement == probe.canvasElement
        natural == probe.natural
        \* the overlay container before the call
        container == IF probe.existing THEN <<simpleOverlay(annotation)>> ELSE << >>
        canvasRect == canvasRenderedRect(annotation, EffectiveDpi)
        screenCoords == convertPdfCoordsToOverlayCoords(canvasElement, canvasRect)
        \* drawAnnotationText calls the conversion after the check for an
        \* existing element and after the renderer returned
        converted == kind = "provider" \/ (~probe.existing /\ ~probe.rendererThrows)
        r == drawAnnotationText(annotation, EffectiveDpi, container,
                                [canvas |-> TRUE, htmlAnnotation |-> TRUE],
                                IF probe.rendererThrows THEN "throws"
                                ELSE IF screenCoords.isNull THEN "noCoords" ELSE "ok",
                                FALSE)
    IN  /\ probe.fn = "overlayInput"
        /\ probe' =
              IF kind = "simple"
              THEN [fn |-> "placeOverlay", calls |-> probe.calls, kind |-> kind,
                    annotation |-> annotation, natural |-> natural,
                    canvasElement |-> canvasElement,
                    existing |-> probe.existing, rendererThrows |-> probe.rendererThrows,
                    converted |-> converted,
                    screenCoords |-> screenCoords,
                    box |-> IF r.call.status = "overlayCreated"
                            THEN simpleOverlayBox(screenCoords, natural) ELSE NoBox,
                    appended |-> Len(r.overlays) - Len(container),
                    container |-> r.overlays,
                    renders |-> r.call.renders,
                    drawn |-> r.call.drawn]
              ELSE [fn |-> "placeOverlay", calls |-> probe.calls, kind |-> kind,
                    annotation |-> annotation, natural |-> natural,
                    canvasElement |-> canvasElement,
                    existing |-> probe.existing, rendererThrows |-> probe.rendererThrows,
                    converted |-> converted,
                    screenCoords |-> screenCoords,
                    box |-> IF screenCoords.isNull THEN NoBox
                            ELSE htmlOverlayBox(screenCoords),
                    appended |-> IF screenCoords.isNull THEN 0 ELSE 1,
                    container |-> createHtmlOverlay(container, annotation,
                                      [canvas |-> ~screenCoords.isNull,
                                       htmlAnnotation |-> TRUE]),
                    renders |-> << >>,
                    drawn |-> {}]
        /\ UNCHANGED <<registryVars, callVars, domVars, htmlAnnotation, emitted, lastOp,
                       pdfVars, indexVars, hoverVars>>

OverlayNext == PlaceOverlay

(***************************************************************************)
(* renderHtmlAnnotation: a template rendered to a canvas through an        *)
(* off-screen element of document.body.                                    *)
(***************************************************************************)
\* width / height a template's result gives; 0 stands for none given
TemplateSizes == {0, 40, 80}

\* width || context.rect.width
renderSize(given, fromContext) == IF given # 0 THEN given ELSE fromContext

\* renderHtmlAnnotation up to `await html2canvas(tempDiv, ...)`, or to its end
\* when the template throws
RenderHtmlAnnotation ==
    LET rect == canvasRenderedRect(probe.annotation, EffectiveDpi)
        tempDiv == [width |-> renderSize(probe.width, rect.width),
                    height |-> renderSize(probe.height, rect.height)]
    IN  /\ probe.fn = "renderInput"
        /\ probe' =
              IF probe.templateThrows
              THEN [fn |-> "renderHtmlAnnotation", calls |-> probe.calls,
                    annotation |-> probe.annotation, pc |-> "settled",
                    body |-> << >>, result |-> "null"]
              ELSE [fn |-> "renderHtmlAnnotation", calls |-> probe.calls,
                    annotation |-> probe.annotation, pc |-> "html2canvas",
                    body |-> <<tempDiv>>, result |-> ""]
        /\ UNCHANGED <<registryVars, callVars, domVars, htmlAnnotation, emitted, lastOp,
                       pdfVars, indexVars, hoverVars>>

\* the promise of html2canvas settles and renderHtmlAnnotation runs to its end
Html2CanvasSettles(rejected) ==
    /\ probe.fn = "renderHtmlAnnotation"
    /\ probe.pc = "html2canvas"
    /\ probe' =
          IF rejected
          THEN [probe EXCEPT !.pc = "settled", !.result = "null"]
          ELSE [probe EXCEPT !.pc = "settled", !.result = "canvas",
                             !.body = SelectSeq(probe.body, LAMBDA e : FALSE)]
    /\ UNCHANGED <<registryVars, callVars, domVars, htmlAnnotation, emitted, lastOp,
                   pdfVars, indexVars, hoverVars>>

HtmlRenderNext ==
    \/ RenderHtmlAnnotation
    \/ \E rejected \in BOOLEAN : Html2CanvasSettles(rejected)

GeometryNext ==
    \/ CallZoomIn
    \/ CallZoomOut
    \/ \E overlay \in OverlayFiles, ok \in BOOLEAN : CallLoadAnnotations(overlay, ok)
    \/ \E pageNumber \in 0..(NumPages - 1), devicePixelRatio \in DevicePixelRatios :
          CallDrawAnnotations(pageNumber, devicePixelRatio)
    \/ \E pt \in TestPoints : CallGetAnnotationAtPoint(pt)
    \/ \E devicePixelRatio \in DevicePixelRatios, annotation \in {Important, Foo} :
          DisplayGeometry(devicePixelRatio, annotation)

(***************************************************************************)
(* convertCoordinates over binary floating point numbers: a number is      *)
(* <<m, e>> with value m * 2^e and a significand m of Precision bits; a    *)
(* product is rounded to the nearest such number, ties to even, as a JS    *)
(* number multiplication rounds to 53 bits.                                *)
(***************************************************************************)
RECURSIVE bitLength(_)
bitLength(n) == IF n = 0 THEN 0 ELSE 1 + bitLength(n \div 2)

\* a product p * 2^e rounded to Precision significant bits
roundToPrecision(p, e) ==
    LET shift == bitLength(p) - Precision
        q == p \div pow(2, shift)
        r == p % pow(2, shift)
        half == pow(2, shift - 1)
        up == IF r > half \/ (r = half /\ q % 2 = 1) THEN q + 1 ELSE q
    IN  IF shift <= 0 THEN <<p, e>>
        ELSE IF up = pow(2, Precision) THEN <<up \div 2, e + shift + 1>>
        ELSE <<up, e + shift>>

\* a * b of two numbers
floatMul(a, b) == roundToPrecision(a[1] * b[1], a[2] + b[2])

\* the numbers 2^(Precision-1) .. 2^Precision - 1, all with a full significand
FloatInputs == {<<m, 0>> : m \in pow(2, Precision - 1)..(pow(2, Precision) - 1)}

\* a conversion that also shifts every coordinate by one
convertCoordinatesFloat_offset(rect, effectiveDpi) ==
    [i \in 1..(Len(rect) \div 2) |->
        <<floatMul(floatMul(rect[2 * i - 1], effectiveDpi), <<pow(2, Precision - 1) + 1, 0>>),
          floatMul(rect[2 * i], effectiveDpi)>>]

\* convertCoordinates: every coordinate multiplied by effectiveDpi
convertCoordinatesFloat(rect, effectiveDpi) ==
    [i \in 1..(Len(rect) \div 2) |->
        <<floatMul(rect[2 * i - 1], effectiveDpi), floatMul(rect[2 * i], effectiveDpi)>>]

\* points [x, y][] written as the flat number[] convertCoordinates takes
RECURSIVE flatten(_)
flatten(points) ==
    IF points = << >> THEN << >> ELSE <<points[1][1], points[1][2]>> \o flatten(Tail(points))

\* convertCoordinates applied with z1 and then with z2, and once with z1 * z2,
\* to the rect and the factors drawn at the start
ComposeConvert ==
    /\ probe.fn = "input"
    /\ probe' = [fn |-> "convertCoordinates", calls |-> probe.calls,
                 rect |-> probe.rect, z1 |-> probe.z1, z2 |-> probe.z2,
                 twice |-> convertCoordinatesFloat(
                              flatten(convertCoordinatesFloat(probe.rect, probe.z1)),
                              probe.z2),
                 once |-> convertCoordinatesFloat(probe.rect, floatMul(probe.z1, probe.z2))]
    /\ UNCHANGED <<registryVars, callVars, domVars, htmlAnnotation, emitted, lastOp,
                   pdfVars, indexVars, hoverVars>>

FloatNext == ComposeConvert

InitRegistry ==
    /\ annotationProviders = <<defaultProvider>>
    /\ activeProviders = {"default"}
    /\ disableFallbackRendering = FALSE
    /\ declaredPriority = [id \in ProviderIds |-> 0]

InitDom ==
    /\ overlays = << >>
    /\ overlayCanvas = {}

InitCalls ==
    /\ inflight = << >>
    /\ lastCall = NoCall

InitViewer ==
    /\ pdfDocument = FALSE
    /\ isLoading = FALSE
    /\ error = FALSE
    /\ currentPage = 0
    /\ totalPages = 0
    /\ zoom = One
    /\ pageAnnotations = << >>
    /\ annotationPaths = << >>
    /\ canvasTransform = NoTransform
    /\ previousHoverState = FALSE
    /\ previousHoveredAnnotation = NoAnnotation
    /\ displays = << >>
    /\ loads = << >>
    /\ loadCount = 0
    /\ lastEventHit = NoAnnotation
    /\ emitted = << >>
    /\ lastOp = NoOp

ClickInit ==
    /\ InitRegistry /\ InitCalls /\ InitDom /\ InitViewer
    /\ htmlAnnotation \in BOOLEAN
    /\ probe = NoProbe

(***************************************************************************)
(* Clicks received by an overlay element instead of the canvas.            *)
(***************************************************************************)
\* mouse events of a click: the pointer position in the viewport, and where
\* getBoundingClientRect() puts the page canvas at that moment
ClickEvents == [clientX : {96, 112}, clientY : {96, 104}, left : {0, 16}, top : {0, 8}]

\* parseInt(annotation.page)
parseInt(str) == CHOOSE n \in 0..9 : ToString(n) = str

\* the annotation the listener of an overlay element closed over
listenerAnnotation(element) ==
    CHOOSE annotation \in {Important, Foo, Page2} :
        annotationKey(annotation) = element.boundTo

\* handleCanvasClick: the click point in canvas pixels, as exact fractions
canvasClickPoint(event) ==
    <<frac((event.clientX - event.left) * canvasTransform[2], canvasTransform[1]),
      frac((event.clientY - event.top) * canvasTransform[2], canvasTransform[1])>>

\* the click listener drawAnnotationText puts on the element it creates; the
\* event does not reach the canvas (stopPropagation)
OverlayClick(i, event) ==
    /\ mounted
    /\ i \in 1..Len(overlays)
    /\ overlays[i].className = "pdf-simple-html-overlay"
    /\ emitted' = <<[type |-> "overlay-click",
                     overlay |-> listenerAnnotation(overlays[i]),
                     context |-> [x |-> event.clientX, y |-> event.clientY,
                                  pageNumber |->
                                      parseInt(listenerAnnotation(overlays[i]).page)]]>>
    /\ UNCHANGED <<registryVars, callVars, domVars, htmlAnnotation, lastOp, probe, pdfVars,
                   indexVars, hoverVars>>

\* a viewer given the htmlAnnotation renderer: hovering creates overlay
\* elements, and clicks go to the canvas or to an element
OverlayClickNext ==
    \/ LoadPdf
    \/ \E i \in 1..MaxLoads, ok \in BOOLEAN : LoadAnnotationsDone(i, ok)
    \/ \E i \in 1..MaxLoads, ok \in BOOLEAN : LoadDocumentDone(i, ok)
    \/ RenderPageDone
    \/ \E i \in 1..MaxDisplays : ImageLoaded(i)
    \/ \E page \in PageInputs : GoToPage(page)
    \/ ZoomIn
    \/ ZoomOut
    \/ \E pt \in Points : HandleCanvasMouseMove(pt, "ok", FALSE)
    \/ \E outside \in BOOLEAN : HandleCanvasMouseLeave(outside)
    \/ \E pt \in Points : HandleCanvasClick(pt)
    \/ \E i \in 1..MaxOverlays, event \in ClickEvents : OverlayClick(i, event)

OverlayClickInit ==
    /\ InitRegistry /\ InitCalls /\ InitDom /\ InitViewer
    /\ htmlAnnotation = TRUE
    /\ probe = NoProbe

SpecOverlayClick == OverlayClickInit /\ [][OverlayClickNext]_vars

\* the viewer with the built-in provider only, as the click test page uses it
ClickNext ==
    \/ LoadPdf
    \/ \E i \in 1..MaxLoads, ok \in BOOLEAN : LoadAnnotationsDone(i, ok)
    \/ \E i \in 1..MaxLoads, ok \in BOOLEAN : LoadDocumentDone(i, ok)
    \/ RenderPageDone
    \/ \E i \in 1..MaxDisplays : ImageLoaded(i)
    \/ \E page \in PageInputs : GoToPage(page)
    \/ NextPage
    \/ PrevPage
    \/ ZoomIn
    \/ ZoomOut
    \/ \E pt \in Points, htmlOutcome \in {"ok", "throws"}, defaultThrows \in BOOLEAN :
          HandleCanvasMouseMove(pt, htmlOutcome, defaultThrows)
    \/ \E outside \in BOOLEAN : HandleCanvasMouseLeave(outside)
    \/ \E pt \in Points : HandleCanvasClick(pt)

SpecClick == ClickInit /\ [][ClickNext]_vars

RegistryInit ==
    /\ InitRegistry /\ InitCalls /\ InitDom /\ InitViewer
    /\ htmlAnnotation = FALSE
    /\ probe = NoProbe

RegistryNext ==
    \/ \E options \in ProviderOptions : RegisterAnnotationProvider(options)
    \/ \E id \in ProviderIds : UnregisterAnnotationProvider(id)
    \/ \E id \in ProviderIds : ToggleProvider(id)
    \/ CleanupProviders
    \/ \E flag \in BOOLEAN : SetDisableFallbackRendering(flag)
    \/ \E annotation \in CallAnnotations, defaultThrows \in BOOLEAN :
          DrawAnnotationText(annotation, defaultThrows)
    \/ \E i \in 1..MaxCalls, rejected \in BOOLEAN, defaultThrows \in BOOLEAN :
          DrawTextSettles(i, rejected, defaultThrows)

SpecRegistry == RegistryInit /\ [][RegistryNext]_vars

SpecProviders == RegistryInit /\ [][ProvidersNext]_vars

SpecInstances == RegistryInit /\ [][InstancesNext]_vars

SpecGeometry == RegistryInit /\ [][GeometryNext]_vars

\* a rect of one coordinate pair and two scale factors
FloatInit ==
    /\ InitRegistry /\ InitCalls /\ InitDom /\ InitViewer
    /\ htmlAnnotation = FALSE
    /\ probe \in [fn : {"input"}, calls : {0},
                  rect : FloatInputs \X FloatInputs, z1 : FloatInputs, z2 : FloatInputs]

SpecFloat == FloatInit /\ [][FloatNext]_vars

\* the overlays to place: drawAnnotationText reaches the conversion only with
\* a canvas element, createHtmlOverlay is called with or without one; the
\* container may hold the annotation's element already and the htmlAnnotation
\* renderer may throw
OverlayInit ==
    /\ InitRegistry /\ InitCalls /\ InitDom /\ InitViewer
    /\ htmlAnnotation = TRUE
    /\ probe \in [fn : {"overlayInput"}, calls : {0}, kind : {"simple", "provider"},
                  annotation : {Important, Foo, Unit, Big},
                  canvasElement : CanvasElements, natural : NaturalSizes,
                  existing : BOOLEAN, rendererThrows : BOOLEAN]
    /\ probe.kind = "simple" => probe.canvasElement.present
    /\ probe.kind = "provider" => (~probe.existing /\ ~probe.rendererThrows)

SpecOverlay == OverlayInit /\ [][OverlayNext]_vars

\* the calls of renderHtmlAnnotation: a template that throws or returns html
\* with or without a size, for an annotation
HtmlRenderInit ==
    /\ InitRegistry /\ InitCalls /\ InitDom /\ InitViewer
    /\ htmlAnnotation = FALSE
    /\ probe \in [fn : {"renderInput"}, calls : {0},
                  annotation : {Important, Foo, Unit, Big},
                  templateThrows : BOOLEAN,
                  width : TemplateSizes, height : TemplateSizes]

SpecHtmlRender == HtmlRenderInit /\ [][HtmlRenderNext]_vars

Init ==
    /\ InitRegistry /\ InitCalls /\ InitDom /\ InitViewer
    /\ htmlAnnotation \in BOOLEAN
    /\ probe = NoProbe

Next ==
    \/ \E options \in HoverOptions : RegisterAnnotationProvider(options)
    \/ LoadPdf
    \/ \E i \in 1..MaxLoads, ok \in BOOLEAN : LoadAnnotationsDone(i, ok)
    \/ \E i \in 1..MaxLoads, ok \in BOOLEAN : LoadDocumentDone(i, ok)
    \/ RenderPageDone
    \/ \E i \in 1..MaxDisplays : ImageLoaded(i)
    \/ \E page \in PageInputs : GoToPage(page)
    \/ NextPage
    \/ PrevPage
    \/ ZoomIn
    \/ ZoomOut
    \* the htmlAnnotation renderer and the built-in renderer succeed on hover
    \/ \E pt \in Points, htmlOutcome \in {"ok"}, defaultThrows \in {FALSE} :
          HandleCanvasMouseMove(pt, htmlOutcome, defaultThrows)
    \/ \E i \in 1..MaxInFlight, rejected \in BOOLEAN, defaultThrows \in {FALSE} :
          MouseMoveResumes(i, rejected, defaultThrows)
    \/ \E outside \in BOOLEAN : HandleCanvasMouseLeave(outside)

Spec == Init /\ [][Next]_vars

\* a host that changes the file of a viewer: loads that follow or overlap each
\* other, and page changes between them
ReloadNext ==
    \/ LoadPdfUpTo(MaxReloads)
    \/ \E i \in 1..MaxReloads, ok \in BOOLEAN : LoadAnnotationsDone(i, ok)
    \/ \E i \in 1..MaxReloads, ok \in BOOLEAN : LoadDocumentDone(i, ok)
    \/ RenderPageDone
    \/ \E i \in 1..MaxDisplays : ImageLoaded(i)
    \/ \E page \in PageInputs : GoToPage(page)
    \/ NextPage
    \/ PrevPage

SpecReload == Init /\ [][ReloadNext]_vars

(***************************************************************************)
(* Properties of the provider registry and of render dispatch.             *)
(***************************************************************************)
defaultRenders(call) ==
    {i \in 1..Len(call.renders) : call.renders[i].provider = "default"}

\* C1 (as stated): whenever a drawAnnotationText call resolved a provider other
\* than `default` and that provider's render threw or rejected,
\* defaultProvider.render was invoked exactly once with the same context and
\* nothing escaped to the caller.
C1_FallbackAlways ==
    (lastCall.status = "settled" /\ lastCall.provider # "default" /\ lastCall.threw)
        => /\ Cardinality(defaultRenders(lastCall)) = 1
           /\ \A i \in defaultRenders(lastCall) :
                 lastCall.renders[i].annotation = lastCall.annotation
           /\ ~lastCall.escaped

\* C1 (amended): the same, for calls whose catch block found
\* disableFallbackRendering false; with the flag set no fallback render is made,
\* and in either case nothing escapes, even if the default render throws too.
C1_FallbackUnlessDisabled ==
    (lastCall.status = "settled" /\ lastCall.provider # "default" /\ lastCall.threw)
        => /\ ~lastCall.escaped
           /\ ~lastCall.fallbackDisabled =>
                 /\ Cardinality(defaultRenders(lastCall)) = 1
                 /\ \A i \in defaultRenders(lastCall) :
                       lastCall.renders[i].annotation = lastCall.annotation
                 /\ Len(lastCall.renders) = 2

C1_Witness ==
    /\ lastCall.status = "settled"
    /\ lastCall.provider # "default"
    /\ lastCall.threw
    /\ lastCall.fallbackThrew
    /\ Cardinality(defaultRenders(lastCall)) = 1

\* a registered provider the resolution may pick for the annotation
qualifies(i, annotation) ==
    /\ annotationProviders[i].id # "default"
    /\ annotationProviders[i].id \in activeProviders
    /\ canHandle(annotationProviders[i], annotation)

\* C2: findProviderForAnnotation returns the first registered provider that is
\* not `default`, is in the active set and can handle the annotation, and the
\* default provider exactly when there is none.
C2_Resolution ==
    \A annotation \in CallAnnotations :
        LET r == findProviderForAnnotation(annotation)
            Q == {i \in 1..Len(annotationProviders) : qualifies(i, annotation)}
        IN  IF Q = {}
            THEN r = defaultProvider
            ELSE /\ r = annotationProviders[SetMin(Q)]
                 /\ r.id # "default"

C2_Witness ==
    /\ lastCall.status = "settled"
    /\ lastCall.provider = "b"
    /\ findProviderForAnnotation(lastCall.annotation).id = "b"
    /\ \E i, j \in 1..Len(annotationProviders) :
          /\ i < j
          /\ annotationProviders[i].id = "a"
          /\ annotationProviders[j].id = "b"
          /\ ~canHandle(annotationProviders[i], lastCall.annotation)

\* C3 (as stated): resolution returns, among the registered active providers
\* that can handle the annotation, the one declared with the highest priority,
\* the earliest registered among equals.
C3_PriorityOrder ==
    \A annotation \in CallAnnotations :
        LET r == findProviderForAnnotation(annotation)
            Q == {i \in 1..Len(annotationProviders) : qualifies(i, annotation)}
        IN  \A i \in Q :
               declaredPriority[r.id] >= declaredPriority[annotationProviders[i].id]

(***************************************************************************)
(* Properties of the hover state machine of the viewer.                    *)
(***************************************************************************)
\* the hover state machine is in Hovering(annotation)
Hovering(annotation) ==
    annotation # NoAnnotation /\ previousHoverState /\ previousHoveredAnnotation = annotation

overlaysOf(container, annotation) ==
    {i \in 1..Len(container) : container[i].boundTo = annotationKey(annotation)}

moveHandlers == {i \in 1..Len(inflight) : inflight[i].kind = "move"}

\* C4 (as stated): a pointer-move that hit-tests to the annotation the previous
\* pointer-move hit performs no overlay-canvas clear, no clearHtmlOverlays, no
\* render and no overlay creation.
C4_NoRepeatedRedraw ==
    [][\A pt \in Points :
          (/\ HandleCanvasMouseMove(pt, "ok", FALSE)
           /\ lastEventHit # NoAnnotation
           /\ getAnnotationAtPoint(annotationPaths, pt) = lastEventHit)
             => UNCHANGED <<overlayCanvas, overlays, inflight>>]_vars

\* C5 (as stated): the HTML overlay container never holds two overlay elements
\* of the same annotation identity (page, line).
C5_OneOverlayPerIdentity ==
    \A i, j \in 1..Len(overlays) : overlays[i].boundTo = overlays[j].boundTo => i = j

\* C6 (as stated): no handleCanvasMouseMove invocation does its teardown and
\* setup while an earlier invocation is still awaiting its provider render.
C6_MovesSerialized ==
    [][(\E pt \in Points :
           /\ HandleCanvasMouseMove(pt, "ok", FALSE)
           /\ ~UNCHANGED <<domVars, inflight, previousHoverState, previousHoveredAnnotation>>)
          => moveHandlers = {}]_vars

\* C7 (as stated): zoomIn, zoomOut, goToPage, nextPage and prevPage leave the
\* hover state machine Idle, the hit-test index empty and the overlay
\* container without overlay elements.
C7_DisplayResetsHover ==
    [][(\/ ZoomIn
        \/ ZoomOut
        \/ \E page \in 0..(NumPages - 1) : GoToPage(page))
          => /\ previousHoverState' = FALSE
             /\ previousHoveredAnnotation' = NoAnnotation
             /\ annotationPaths' = << >>
             /\ overlays' = << >>]_vars

\* C8: a hit test never returns an annotation from an index entry built before
\* a zoom change; whenever the index of the mounted canvas is not empty it was
\* rebuilt, together with the canvas transform, at the current zoom.
C8_NoStaleHit ==
    /\ \A pt \in Points :
          hitEntry(annotationPaths, pt) # 0
             => ~annotationPaths[hitEntry(annotationPaths, pt)].builtBeforeZoom
    /\ (mounted /\ annotationPaths # << >>) => canvasTransform = zoom

C8_Witness ==
    /\ mounted
    /\ zoom # One
    /\ canvasTransform = zoom
    /\ \E pt \in Points : getAnnotationAtPoint(annotationPaths, pt) = Important

\* what C9 requires once a transition from Hovering(a) to Hovering(b) settled
switched(a, b) ==
    /\ previousHoverState'
    /\ previousHoveredAnnotation' = b
    /\ overlaysOf(overlays', a) = {}
    /\ Cardinality(overlaysOf(overlays', b)) <= 1
    /\ \A m \in overlayCanvas' : m.key = annotationKey(b)

\* C9 (as stated): a pointer-move that hit-tests to B in Hovering(A), A # B,
\* settles in Hovering(B) with the overlay canvas showing B only and no overlay
\* element of A left, whether it settles at once or after the provider's promise.
C9_SwitchTransition ==
    [][/\ \A pt \in Points :
             (/\ HandleCanvasMouseMove(pt, "ok", FALSE)
              /\ Hovering(previousHoveredAnnotation)
              /\ getAnnotationAtPoint(annotationPaths, pt)
                    \notin {NoAnnotation, previousHoveredAnnotation}
              /\ inflight' = inflight)
                => switched(previousHoveredAnnotation,
                            getAnnotationAtPoint(annotationPaths, pt))
       /\ \A i \in moveHandlers :
             (/\ \E rejected \in BOOLEAN : MouseMoveResumes(i, rejected, FALSE)
              /\ inflight[i].previous \notin {NoAnnotation, inflight[i].currentAnnotation})
                => switched(inflight[i].previous, inflight[i].currentAnnotation)]_vars

\* C10 (as stated): in Hovering(A), a pointer-move that hits no annotation and a
\* mouse-leave outside the canvas rectangle both end in Idle with the overlay
\* canvas cleared and no overlay element of A in the container.
C10_LeaveTransition ==
    [][(/\ Hovering(previousHoveredAnnotation)
        /\ \/ \E pt \in Points :
                 /\ HandleCanvasMouseMove(pt, "ok", FALSE)
                 /\ getAnnotationAtPoint(annotationPaths, pt) = NoAnnotation
           \/ HandleCanvasMouseLeave(TRUE))
          => /\ previousHoverState' = FALSE
             /\ previousHoveredAnnotation' = NoAnnotation
             /\ overlayCanvas' = {}
             /\ overlaysOf(overlays', previousHoveredAnnotation) = {}]_vars

(***************************************************************************)
(* Properties of the click handler.                                        *)
(***************************************************************************)
\* C11: a click with the canvases mounted emits exactly one event: overlay-click
\* with the hit annotation and {x, y, pageNumber} when the click point hits an
\* annotation, canvas-click with {x, y, pageNumber} otherwise.
C11_OneEventPerClick ==
    [][\A pt \in Points :
          HandleCanvasClick(pt) =>
             LET hit == getAnnotationAtPoint(annotationPaths, pt)
                 context == [x |-> pt[1], y |-> pt[2], pageNumber |-> currentPage]
             IN  /\ Len(emitted') = 1
                 /\ emitted'[1].context = context
                 /\ IF hit # NoAnnotation
                    THEN emitted'[1].type = "overlay-click" /\ emitted'[1].overlay = hit
                    ELSE emitted'[1].type = "canvas-click"]_vars

C11_Witness ==
    /\ mounted
    /\ Len(emitted) = 1
    /\ emitted[1].type = "overlay-click"
    /\ emitted[1].overlay = Important
    /\ emitted[1].context.pageNumber = 0

\* C12: a click changes neither previousHoverState, previousHoveredAnnotation,
\* the hit-test index nor the overlay elements, whether it hit or not.
C12_ClickFrame ==
    [][(\E pt \in Points : HandleCanvasClick(pt))
          => UNCHANGED <<previousHoverState, previousHoveredAnnotation, annotationPaths,
                         overlays>>]_vars

C12_Witness ==
    /\ Hovering(Foo)
    /\ overlays # << >>
    /\ Len(emitted) = 1
    /\ emitted[1].type = "overlay-click"
    /\ emitted[1].overlay = Foo

(***************************************************************************)
(* Properties of the registry operations.                                  *)
(***************************************************************************)
\* C13: unregisterAnnotationProvider('default') leaves the registered providers
\* and the active set as they were.
C13_DefaultNotUnregistered ==
    [][CallUnregister("default") => UNCHANGED <<annotationProviders, activeProviders>>]_vars

C13_Witness ==
    /\ lastOp.op = "unregister"
    /\ lastOp.id = "default"
    /\ MapHas(annotationProviders, "default")
    /\ MapHas(annotationProviders, "a")

\* C14 (as stated): whatever register, unregister, toggle and cleanup calls were
\* made, the registry holds exactly one provider with id `default` and it is
\* the built-in provider, whose canHandle is true for every annotation.
C14_BuiltinDefault ==
    /\ Cardinality({i \in 1..Len(annotationProviders) :
                       annotationProviders[i].id = "default"}) = 1
    /\ getAnnotationProvider("default") = createDefaultProvider
    /\ \A annotation \in CallAnnotations :
          canHandle(getAnnotationProvider("default"), annotation)

\* C15 (as stated): toggleProvider(id) on an active, registered, non-default
\* provider removes id from the active set, leaves the provider registered and
\* makes resolution skip it.
C15_ToggleKeepsRegistration ==
    [][\A id \in CustomIds :
          (/\ CallToggle(id)
           /\ id \in activeProviders
           /\ MapHas(annotationProviders, id))
             => /\ id \notin activeProviders'
                /\ MapHas(annotationProviders', id)
                /\ \A annotation \in CallAnnotations :
                      findProviderForAnnotation(annotation)'.id # id]_vars

\* C16: after cleanupProviders the registered ids are exactly {default} and the
\* active set is exactly {default}.
C16_CleanupResets ==
    [][CallCleanup => /\ MapKeys(annotationProviders') = {"default"}
                      /\ activeProviders' = {"default"}]_vars

C16_Witness ==
    /\ lastOp.op = "cleanup"
    /\ declaredPriority["a"] # 0
    /\ declaredPriority["b"] # 0
    /\ MapKeys(annotationProviders) = {"default"}
    /\ activeProviders = {"default"}

\* C17: unregisterAnnotationProvider(id) with an id that is not registered
\* leaves the registered providers and the active set as they were.
C17_UnknownIdNoChange ==
    [][\A id \in CustomIds :
          (CallUnregister(id) /\ ~MapHas(annotationProviders, id))
             => UNCHANGED <<annotationProviders, activeProviders>>]_vars

\* `b` was never registered, `a` is
C17_Witness ==
    /\ lastOp.op = "unregister"
    /\ lastOp.id = "b"
    /\ declaredPriority["b"] = 0
    /\ MapHas(annotationProviders, "a")
    /\ "a" \in activeProviders

drawCalls ==
    {lastCall} \cup {inflight[i].call : i \in {j \in 1..Len(inflight) : inflight[j].kind = "draw"}}

\* positions of the fallback renders of a call: those after the resolved provider's
fallbackRenders(call) == {i \in 2..Len(call.renders) : call.renders[i].provider = "default"}

\* C18: one drawAnnotationText call invokes render functions at most twice and
\* defaultProvider.render at most once as a fallback; when the resolved provider
\* is `default` and throws nothing more is rendered, and when the fallback
\* throws it is not rendered again.
C18_BoundedRetry ==
    \A call \in drawCalls :
        /\ Len(call.renders) <= 2
        /\ Cardinality(fallbackRenders(call)) <= 1
        /\ Len(call.renders) = 2 => fallbackRenders(call) = {2}
        /\ (call.provider = "default" /\ call.threw) => Len(call.renders) = 1
        /\ call.fallbackThrew => Len(call.renders) = 2

\* both cases: a custom provider rejected and the fallback threw too
C18_Witness ==
    /\ lastCall.status = "settled"
    /\ lastCall.provider \in CustomIds
    /\ lastCall.fallbackThrew
    /\ lastCall.renders = <<[provider |-> lastCall.provider, annotation |-> lastCall.annotation],
                            [provider |-> "default", annotation |-> lastCall.annotation]>>

\* C20: a provider registered in the registry is what findProviderForAnnotation
\* of every usePdfAnnotations instance returns when it is the first active one
\* accepting the annotation, and the viewer's cleanup() leaves the registered
\* providers and the active set as they were.
C20_ProcessWide ==
    /\ [](\A inst \in Instances, annotation \in CallAnnotations :
            \A i \in 1..Len(annotationProviders) :
               (qualifies(i, annotation) /\ \A j \in 1..(i - 1) : ~qualifies(j, annotation))
                  => instanceFind(inst, annotation) = annotationProviders[i])
    /\ [][Cleanup => UNCHANGED <<annotationProviders, activeProviders>>]_vars

\* the document was loaded, a provider registered, the viewer cleaned up, and
\* the viewer's instance still resolves to the provider
C20_Witness ==
    /\ lastOp.op = "viewer-cleanup"
    /\ loadCount = 1 /\ loads = << >> /\ ~error /\ ~pdfDocument
    /\ MapHas(annotationProviders, "a")
    /\ "a" \in activeProviders
    /\ canHandle(getAnnotationProvider("a"), Important)
    /\ instanceFind("viewer", Important).id = "a"

(***************************************************************************)
(* Properties of the geometry.                                             *)
(***************************************************************************)
\* C21 (as stated): for every annotation, devicePixelRatio and zoom the polygon
\* the worker draws into the page raster is the polygon stored for the hit
\* test, and the hover handler uses the effectiveDpi of displayPage.
C21_DrawnIsStored ==
    probe.fn = "displayPage"
        => /\ probe.drawn = probe.stored
           /\ probe.hoverDpi = probe.effectiveDpi

C29_ZoomBounded ==
    /\ [](~fracLess(zoom, <<3, 10>>) /\ ~fracLess(<<3, 1>>, zoom))
    /\ [][CallZoomIn => zoom' = IF fracLess(fracMul(zoom, <<6, 5>>), <<3, 1>>)
                                THEN fracMul(zoom, <<6, 5>>) ELSE <<3, 1>>]_vars
    /\ [][CallZoomOut => zoom' = IF fracLess(<<3, 10>>, fracMul(zoom, <<5, 6>>))
                                 THEN fracMul(zoom, <<5, 6>>) ELSE <<3, 10>>]_vars

\* the seventh zoomIn in a row hits the cap
C29_Witness == zoom = <<3, 1>> /\ probe.fn = "zoomIn" /\ probe.calls = 7

\* the point lies strictly inside the bounding box of the path
insideBox(path, pt) ==
    /\ boundingRect(path).minX < pt[1] /\ pt[1] < boundingRect(path).maxX
    /\ boundingRect(path).minY < pt[2] /\ pt[2] < boundingRect(path).maxY

\* the index holds axis-parallel rectangles only
rectanglesOnly(paths) ==
    \A i \in 1..Len(paths) :
        /\ Len(paths[i].path) = 4
        /\ \A k \in 1..4 : /\ paths[i].path[k][1] \in {boundingRect(paths[i].path).minX,
                                                        boundingRect(paths[i].path).maxX}
                            /\ paths[i].path[k][2] \in {boundingRect(paths[i].path).minY,
                                                        boundingRect(paths[i].path).maxY}

\* C23: getAnnotationAtPoint returns the annotation of the first entry, in
\* insertion order, whose polygon contains the point and none when no polygon
\* contains it; with the index of rect [0,0,1,0,1,1,0,1] at effectiveDpi 96 the
\* polygon is (0,0),(96,0),(96,96),(0,96), (48,48) hits and (200,200) misses.
C23_FirstHitWins ==
    (probe.fn = "getAnnotationAtPoint" /\ rectanglesOnly(probe.paths))
        => LET hits == {i \in 1..Len(probe.paths) : insideBox(probe.paths[i].path, probe.pt)}
           IN  /\ hits = {} => probe.out = NoAnnotation
               /\ hits # {} => probe.out = probe.paths[SetMin(hits)].annotation
               /\ (Len(probe.paths) = 1 /\ probe.paths[1].annotation.rect = Unit.rect
                      /\ probe.paths[1].path = <<<<0, 0>>, <<96, 0>>, <<96, 96>>, <<0, 96>>>>)
                     => /\ probe.pt = <<48, 48>> => probe.out = probe.paths[1].annotation
                        /\ probe.pt = <<200, 200>> => probe.out = NoAnnotation

\* two polygons contain the point and the one inserted first is returned
C23_Witness ==
    /\ probe.fn = "getAnnotationAtPoint"
    /\ probe.pt = <<48, 48>>
    /\ Len(probe.paths) = 2
    /\ probe.paths[1].annotation = Big
    /\ probe.paths[2].annotation = Unit
    /\ insideBox(probe.paths[2].path, probe.pt)
    /\ probe.out = Big

\* fewer than 3 distinct points, or a bounding box of zero width or height
degenerate(annotation) ==
    LET points == convertCoordinates(annotation.rect, 1)
    IN  \/ Cardinality({points[i] : i \in 1..Len(points)}) < 3
        \/ boundingRect(points).width = 0
        \/ boundingRect(points).height = 0

\* C24 (as stated): the hit-test index holds no entry for an annotation whose
\* rect has fewer than 3 distinct points or a bounding box of zero width or
\* height.
C24_NoDegenerateEntry ==
    \A i \in 1..Len(annotationPaths) : ~degenerate(annotationPaths[i].annotation)

\* C27 (as stated): when fetching or parsing the annotation file fails,
\* loadAnnotations leaves the empty list and does not throw, loadPdf goes on to
\* load the document, and once the load has settled the document is displayed
\* on the canvas with no annotations.
C27_AnnotationLoadFailure ==
    /\ [][\A i \in 1..MaxReloads :
             LoadAnnotationsDone(i, FALSE)
                => /\ pageAnnotations' = << >>
                   /\ Len(loads') = Len(loads)
                   /\ loads'[i].pc = "document"
                   /\ isLoading'
                   /\ ~error']_vars
    /\ [][\A i \in 1..MaxReloads :
             (LoadDocumentDone(i, TRUE) /\ pageAnnotations = << >>) => pdfDocument']_vars
    /\ []((mounted /\ pageAnnotations = << >> /\ loads = << >> /\ displays = << >>)
            => /\ canvasTransform = zoom
               /\ annotationPaths = << >>)

\* C30 (as stated): once no pointer handler is in flight, the tracked hover
\* state and what is drawn on the overlay canvas are those of the pointer event
\* that came last, not those of an earlier event whose render settled later.
C30_LatestEventWins ==
    (inflight = << >> /\ mounted /\ lastEventHit # NoAnnotation)
        => /\ previousHoverState
           /\ previousHoveredAnnotation = lastEventHit
           /\ \A mark \in overlayCanvas : mark.key = annotationKey(lastEventHit)

\* value of a number whose exponent is not negative
floatValue(a) == a[1] * pow(2, a[2])

absDiff(a, b) == IF a < b THEN b - a ELSE a - b

\* two numbers that differ by at most the rounding of two products on each
\* side: |a - b| <= 4u / (1 - u)^2 * min(a, b) with u = 2^-Precision
withinRounding(a, b) ==
    absDiff(floatValue(a), floatValue(b)) * (pow(2, Precision) - 1) * (pow(2, Precision) - 1)
        <= 4 * pow(2, Precision) * SetMin({floatValue(a), floatValue(b)})

C25_NullIsNoOp ==
    (probe.fn = "placeOverlay" /\ probe.converted /\ probe.screenCoords.isNull)
        => /\ probe.appended = 0
           /\ probe.box = NoBox
           /\ probe.drawn = {}

\* C26 (as stated): every overlay element has the measured size of its content
\* and its centre is the centre of the converted rectangle.
C26_NaturalSizeCentred ==
    (probe.fn = "placeOverlay" /\ probe.box # NoBox)
        => /\ probe.box.width = fracOf(probe.natural.width)
           /\ probe.box.height = fracOf(probe.natural.height)
           /\ fracAdd(probe.box.left, fracMul(probe.box.width, <<1, 2>>))
                 = fracAdd(probe.screenCoords.x, fracMul(probe.screenCoords.width, <<1, 2>>))
           /\ fracAdd(probe.box.top, fracMul(probe.box.height, <<1, 2>>))
                 = fracAdd(probe.screenCoords.y, fracMul(probe.screenCoords.height, <<1, 2>>))

\* C31: a drawAnnotationText call whose non-default provider threw or rejected
\* lets nothing escape; if disableFallbackRendering is set when the error is
\* caught the default render is not invoked and draws nothing, and if it is
\* not set the default render is invoked exactly once.
C31_FallbackFlag ==
    [][(lastCall' # lastCall /\ lastCall'.status = "settled"
          /\ lastCall'.provider # "default" /\ lastCall'.threw)
        => /\ ~lastCall'.escaped
           /\ IF disableFallbackRendering
              THEN /\ defaultRenders(lastCall') = {}
                   /\ Len(lastCall'.renders) = 1
                   /\ textMark("default", lastCall'.annotation) \notin lastCall'.drawn
              ELSE /\ Cardinality(defaultRenders(lastCall')) = 1
                   /\ Len(lastCall'.renders) = 2]_vars

\* a custom provider's render failed while the flag was set
C31_Witness ==
    /\ lastCall.status = "settled"
    /\ lastCall.provider # "default"
    /\ lastCall.threw
    /\ lastCall.fallbackDisabled
    /\ disableFallbackRendering
    /\ Len(lastCall.renders) = 1
    /\ lastCall.drawn = {}

\* C32 (as stated): a second toggleProvider(id), right after the toggleProvider(id)
\* that disabled a registered, active, non-default provider, leaves the provider
\* registered and active again, so that resolution uses it for the annotations
\* it can handle.
C32_ToggleTwiceRestores ==
    [][\A id \in CustomIds :
          (/\ CallToggle(id)
           /\ lastOp.op = "toggle" /\ lastOp.id = id /\ lastOp.result = "disabled")
             => /\ id \in activeProviders'
                /\ MapHas(annotationProviders', id)]_vars

\* C33 (as stated): every id in the active set is the id of a registered
\* provider.
C33_ActiveAreRegistered ==
    activeProviders \subseteq MapKeys(annotationProviders)

\* C34 (as stated): once every displayPage call has settled, the hit-test index
\* of the mounted viewer holds only annotations of the current page, in whatever
\* order the page images finished loading.
C34_IndexOfCurrentPage ==
    (mounted /\ displays = << >> /\ loads = << >>)
        => \A i \in 1..Len(annotationPaths) :
              annotationPaths[i].annotation.page = ToString(currentPage + 1)

\* C35 (as stated): once every loadPdf call has settled and a document is
\* shown, the annotation set and the document loaded last come from the same
\* loadPdf call, also when the calls overlapped.
C35_AnnotationsOfDocument ==
    (loads = << >> /\ pdfDocument /\ ~error /\ pageAnnotations # << >>)
        => \E call \in 1..MaxReloads :
              /\ pageAnnotations = overlayOf(call)
              /\ totalPages = pagesOf(call)

\* C36 (as stated): once every loadPdf and displayPage call has settled and a
\* document is shown, currentPage is a page of that document and a page is
\* drawn on the canvas at the current zoom.
C36_CurrentPageShown ==
    (mounted /\ loads = << >> /\ displays = << >>)
        => /\ 0 <= currentPage /\ currentPage < totalPages
           /\ canvasTransform = zoom

\* C37 (as stated): an overlay-click emitted by the click listener of an overlay
\* element carries what handleCanvasClick reports for the same mouse event: the
\* current page index and the click point in canvas pixels.
C37_SameClickContext ==
    [][\A i \in 1..MaxOverlays, event \in ClickEvents :
          (OverlayClick(i, event) /\ canvasTransform # NoTransform)
             => /\ emitted'[1].context.pageNumber = currentPage
                /\ fracOf(emitted'[1].context.x) = canvasClickPoint(event)[1]
                /\ fracOf(emitted'[1].context.y) = canvasClickPoint(event)[2]]_vars

\* the elements of a container that carry the annotation's data-annotation-id
elementsOf(container, annotation) ==
    {i \in 1..Len(container) : container[i].dataAnnotationId = annotationKey(annotation)}

\* C38: drawAnnotationText of a viewer with the htmlAnnotation renderer, canvas
\* and overlay container, for an annotation with content and a non-degenerate
\* bounding box: if the annotation's element exists nothing is created or
\* rendered; otherwise, if the renderer returns and the conversion gives
\* coordinates, exactly one element is created and no provider render is
\* invoked; only if the renderer throws or the conversion gives null is a
\* provider resolved and its render invoked, and no element is created.
C38_OverlayOrProvider ==
    (probe.fn = "placeOverlay" /\ probe.kind = "simple")
        => /\ Cardinality(elementsOf(probe.container, probe.annotation)) <= 1
           /\ IF probe.existing
              THEN probe.appended = 0 /\ probe.renders = << >> /\ probe.drawn = {}
              ELSE IF ~probe.rendererThrows /\ ~probe.screenCoords.isNull
              THEN /\ probe.appended = 1
                   /\ Cardinality(elementsOf(probe.container, probe.annotation)) = 1
                   /\ probe.renders = << >>
                   /\ probe.drawn = {}
              ELSE /\ probe.appended = 0
                   /\ Len(probe.renders) = 1

\* the renderer returned and the conversion gave coordinates: one element of
\* the annotation was created and no provider rendered
C38_Witness ==
    /\ probe.fn = "placeOverlay" /\ probe.kind = "simple"
    /\ ~probe.existing /\ ~probe.rendererThrows /\ ~probe.screenCoords.isNull
    /\ probe.appended = 1
    /\ probe.container = <<simpleOverlay(probe.annotation)>>
    /\ probe.renders = << >>

\* C39 (as stated): once renderHtmlAnnotation has settled, with a canvas or with
\* null, the off-screen element it appended to document.body has been removed.
C39_NoTemporaryElementLeft ==
    (probe.fn = "renderHtmlAnnotation" /\ probe.pc = "settled")
        => probe.body = << >>

====
